---------------------------- MODULE Spec2Model ----------------------------
(***************************************************************************)
(* A model of keeper_pdf_generator.py: the placeholder substitution, the   *)
(* per-customer pipeline process_customer and the batch loop of main.      *)
(*                                                                         *)
(* Text is modelled as a sequence of characters, one single-character      *)
(* string per character.  Two characters are written by name, DQ (the      *)
(* double quote) and BS (the backslash); a placeholder token such as       *)
(* ${customer_name} is one atom of the sequence, because the code only     *)
(* ever matches it as a whole.                                             *)
(***************************************************************************)
EXTENDS Integers, Sequences, FiniteSets, TLC

DQ == "dq"
BS == "bs"
TOKEN_NAME  == "${customer_name}"
TOKEN_OTHER == "${other}"

\* Characters the regex replacement template and the JSON decoder treat alike.
Digits  == {"1"}
Letters == {"A", "B", "L", "D", "o", "g", "i", "n", "b", "c", "s", "t", "l", "e"}

\* Bounds of the substitution inputs.
MaxNameLen == 2
MaxTextLen == 2

NameChars == {"A", "1", DQ, BS}
TextAtoms == {"A", DQ, BS, TOKEN_NAME, TOKEN_OTHER}

RECURSIVE SeqsUpTo(_, _)
SeqsUpTo(S, n) ==
    IF n = 0 THEN {<<>>}
    ELSE LET shorter == SeqsUpTo(S, n - 1)
         IN  shorter \cup {Append(s, x) : s \in shorter, x \in S}

Ok(v)  == [ok |-> TRUE, val |-> v]
Raised == [ok |-> FALSE, val |-> <<>>]
Cons(x, r) == IF r.ok THEN Ok(<<x>> \o r.val) ELSE Raised

(***************************************************************************)
(* json.dumps of one string: the text between the surrounding quotes.      *)
(* A double quote and a backslash are escaped with a backslash; every      *)
(* other character of the model's alphabet is written as it is.            *)
(***************************************************************************)
RECURSIVE JsonDumpsStr(_)
JsonDumpsStr(s) ==
    IF s = <<>> THEN <<>>
    ELSE (IF Head(s) \in {DQ, BS} THEN <<BS, Head(s)>> ELSE <<Head(s)>>)
         \o JsonDumpsStr(Tail(s))

(***************************************************************************)
(* re.sub parses its replacement argument as a template before any match   *)
(* is looked for: \\ stands for one backslash, \<digit> is a reference to  *)
(* a group (the pattern has none: re.error), \<letter> outside the known   *)
(* escapes is re.error "bad escape", a backslash at the end is re.error,   *)
(* and a backslash before any other character is kept with it.             *)
(***************************************************************************)
RECURSIVE ReTemplate(_)
ReTemplate(r) ==
    IF r = <<>> THEN Ok(<<>>)
    ELSE IF Head(r) # BS THEN Cons(Head(r), ReTemplate(Tail(r)))
    ELSE IF Len(r) < 2 THEN Raised
    ELSE IF r[2] = BS THEN Cons(BS, ReTemplate(Tail(Tail(r))))
    ELSE IF r[2] \in Digits \cup Letters THEN Raised
    ELSE LET rest == ReTemplate(Tail(Tail(r)))
         IN  IF rest.ok THEN Ok(<<BS, r[2]>> \o rest.val) ELSE Raised

\* Every non-overlapping match of \$\{customer_name\} replaced by repl.
RECURSIVE ReSubName(_, _)
ReSubName(text, repl) ==
    IF text = <<>> THEN <<>>
    ELSE (IF Head(text) = TOKEN_NAME THEN repl ELSE <<Head(text)>>)
         \o ReSubName(Tail(text), repl)

(***************************************************************************)
(* json.loads of the text between a string's quotes.  A bare double quote  *)
(* ends the string early and what follows it is no JSON (the alphabet has  *)
(* no comma, colon or bracket): JSONDecodeError.  A backslash must be      *)
(* followed by a double quote or a backslash; followed by anything else it *)
(* is an invalid escape, and as the last character it escapes the closing  *)
(* quote and leaves the string unterminated.                               *)
(***************************************************************************)
RECURSIVE JsonLoadsStr(_)
JsonLoadsStr(t) ==
    IF t = <<>> THEN Ok(<<>>)
    ELSE IF Head(t) = DQ THEN Raised
    ELSE IF Head(t) # BS THEN Cons(Head(t), JsonLoadsStr(Tail(t)))
    ELSE IF Len(t) < 2 THEN Raised
    ELSE IF t[2] \in {DQ, BS} THEN Cons(t[2], JsonLoadsStr(Tail(Tail(t))))
    ELSE Raised

\* One string of the template through dumps, re.sub and loads.
SubstStr(s, name) ==
    LET repl == ReTemplate(name)
    IN  IF ~repl.ok THEN Raised
        ELSE JsonLoadsStr(ReSubName(JsonDumpsStr(s), repl.val))


(***************************************************************************)
(* A Python dict is a sequence of <<key, value>> pairs with distinct keys, *)
(* in insertion order: assigning to a key that is present replaces its     *)
(* value in place, assigning to a new key appends.                         *)
(***************************************************************************)
DictKeys(d) == {d[i][1] : i \in DOMAIN d}
DictGet(d, k, default) ==
    IF k \in DictKeys(d)
    THEN d[CHOOSE i \in DOMAIN d : d[i][1] = k][2]
    ELSE default
DictSet(d, k, v) ==
    IF k \in DictKeys(d)
    THEN [i \in DOMAIN d |-> IF d[i][1] = k THEN <<k, v>> ELSE d[i]]
    ELSE Append(d, <<k, v>>)
DictValues(d) == [i \in DOMAIN d |-> d[i][2]]

(***************************************************************************)
(* substitute_placeholders: the whole template goes through json.dumps,    *)
(* one re.sub and json.loads.  Only ${customer_name} is substituted, and   *)
(* only customer['name'] is read.  The keys of the template's objects are  *)
(* plain words in every template of the model, so they come back as they   *)
(* went in; every string value goes through SubstStr.                      *)
(***************************************************************************)
SubstFields(fields, name) ==
    [i \in DOMAIN fields |-> <<fields[i][1], SubstStr(fields[i][2], name).val>>]
SubstRecord(r, name) ==
    [k \in DOMAIN r |->
        IF k = "fields" THEN SubstFields(r[k], name) ELSE SubstStr(r[k], name).val]
TemplateStrings(t) ==
    {t.root_folder} \cup {t.subfolders[i] : i \in DOMAIN t.subfolders}
    \cup UNION {{t.records[i][k] : k \in DOMAIN t.records[i] \ {"fields"}}
                \cup {t.records[i].fields[j][2] : j \in DOMAIN t.records[i].fields}
                : i \in DOMAIN t.records}
substitute_placeholders(template, customer) ==
    IF \/ ~ReTemplate(customer.name).ok
       \/ \E s \in TemplateStrings(template) : ~SubstStr(s, customer.name).ok
    THEN Raised
    ELSE Ok([root_folder |-> SubstStr(template.root_folder, customer.name).val,
             subfolders  |-> [i \in DOMAIN template.subfolders |->
                                 SubstStr(template.subfolders[i], customer.name).val],
             records     |-> [i \in DOMAIN template.records |->
                                 SubstRecord(template.records[i], customer.name)]])

(***************************************************************************)
(* get_folder_records over the records of the folder tree, in the order    *)
(* the vault lists them: a dict keyed by title, a later record with the    *)
(* same title replacing the earlier one's data.                            *)
(***************************************************************************)
RECURSIVE GetFolderRecordsFrom(_, _)
GetFolderRecordsFrom(recs, acc) ==
    IF recs = <<>> THEN acc
    ELSE GetFolderRecordsFrom(Tail(recs), DictSet(acc, Head(recs).title, Head(recs).data))
\* The dict created anew on every turn of the loop: only the last record is kept.
get_folder_records_reset(recs) ==
    IF recs = <<>> THEN <<>> ELSE << <<recs[Len(recs)].title, recs[Len(recs)].data>> >>
get_folder_records(recs) == GetFolderRecordsFrom(recs, <<>>)

\* The key of one field of one record in the context: f'{title}_{field}'.
ContextKey(title, field) == title \o <<"_">> \o field
CUSTOMER_NAME_KEY == <<"c", "u", "s", "t", "o", "m", "e", "r", "_", "n", "a", "m", "e">>

\* process_customer, lines 159-163: the context starts with customer_name and
\* takes one entry per field of every record of the dict, in dict order.
RECURSIVE AddFields(_, _, _)
AddFields(context, title, data) ==
    IF data = <<>> THEN context
    ELSE AddFields(DictSet(context, ContextKey(title, Head(data)[1]), Head(data)[2]),
                   title, Tail(data))
RECURSIVE AddRecords(_, _)
AddRecords(context, records) ==
    IF records = <<>> THEN context
    ELSE AddRecords(AddFields(context, Head(records)[1], Head(records)[2]), Tail(records))
BuildContext(customer, records) ==
    AddRecords(<< <<CUSTOMER_NAME_KEY, customer.name>> >>, records)

(***************************************************************************)
(* The state of one run of main.                                           *)
(***************************************************************************)
VARIABLES
    customers,        \* main: the list of customers, each [name, email, custom]
    json_template,    \* the JSON structure template held in the vault record's notes
    word_uid_bound,   \* whether the module's global namespace binds the name word_uid
    args,             \* main: the parsed command line, [bulk, csv, customer]
    answers,          \* main: the values the four template and folder prompts returned
    value,            \* get_user_input: the text read last, '' before the first prompt
    mainPc,           \* main: "authenticate", "prompt", "customers", "loop", "call" (inside
                      \* process_customer), "completed", "crashed", "exited" (sys.exit)
    cur,              \* main: how many customers the for loop has taken so far
    pc,               \* process_customer: the statement about to run
    exc,              \* the exception that left process_customer or main, or "none"
    template,         \* process_customer: the substituted template
    root_folder_uid,  \* process_customer
    subfolder_uids,   \* process_customer: dict from subfolder name to uid
    i,                \* process_customer: position in the loop being run
    context,          \* process_customer: dict from key to value
    pdf_uid,          \* process_customer: pdf_record.record_uid
    created_uids,     \* process_customer: the list the rollback walks
    vault,            \* the folders and records the vault holds
    nextUid,          \* the vault's next identifier
    folderTexts,      \* how many identifiers so far contain the text "folder"
    tmpFiles,         \* the temporary files on disk, each [customer, suffix]
    created,          \* log: per customer, the identifiers created for it
    deleteCalls,      \* log: the delete calls made, each [uid, op, ok]
    logged,           \* log: the logging.error / logging.info calls, each [customer, level]
    returned,         \* log: the customers for which process_customer returned
    subIn,            \* substitute_placeholders alone: the input [text, name]
    subOut,           \* substitute_placeholders alone: the result, or NotRun
    ctxIn,            \* context aggregation alone: [name, records in listing order]
    ctxOut,           \* context aggregation alone: the context built, or NotRun
    sys_pc,           \* keeper_pdf_system.py, run: "off", "authenticate", "customers",
                      \* "menu", "batch", "single" (with call_pc), "done", "crashed"
    call_pc,          \* its process_customer: "none", "template", "extract", "generate"
    folder_cache,     \* params.folder_cache after sync_down: the folder UIDs it holds
    sys_customers,    \* run: the list get_customer_folders returned
    choice,           \* run: what the user typed at the menu, or NoChoice
    pos,              \* run: the position in sys_customers of the customer in hand
    sys_success_count,\* run: success_count of the 'A' branch
    calls,            \* log: the calls of process_customer, in call order
    sys_printed,      \* log: what run printed, in order
    upl_pc,           \* upload_templates_to_vault.py: "off", "check", "confirm",
                      \* "authenticate", "upload", "summary", "done", "crashed"
    files,            \* the enhanced template files on disk
    confirm,          \* main: what the user typed at the confirmation
    upl_i,            \* update_vault_templates: the position in templates_to_upload
    upl_success_count,\* update_vault_templates: success_count
    upl_records,      \* the records RecordAddCommand created, by template name
    upl_log,          \* log: what the script did and printed, in order
    vd_pc,            \* extract_vault_data and build_template_context alone:
                      \* "off", "loop", "context", "done"
    vd_name,          \* build_template_context: customer_name
    vd_records,       \* extract_vault_data: records
    vd_i,             \* extract_vault_data: the position of the loop in records
    vault_data,       \* extract_vault_data: vault_data
    vd_branch,        \* log: per record handled, the branch that handled it
    vd_context        \* what build_template_context returned, or NotRun

inputs == <<customers, json_template, word_uid_bound, args, answers, value>>
ctl    == <<mainPc, cur, pc, exc>>
locals == <<template, root_folder_uid, subfolder_uids, i, context, pdf_uid, created_uids>>
world  == <<vault, nextUid, folderTexts, tmpFiles>>
logs   == <<created, deleteCalls, logged, returned>>
system == <<sys_pc, call_pc, folder_cache, sys_customers, choice, pos,
            sys_success_count, calls, sys_printed>>
upload == <<upl_pc, files, confirm, upl_i, upl_success_count, upl_records, upl_log>>
extraction == <<vd_pc, vd_name, vd_records, vd_i, vault_data, vd_branch, vd_context>>
pure   == <<subIn, subOut, ctxIn, ctxOut, system, upload, extraction>>
generator == <<inputs, ctl, locals, world, logs, subIn, subOut, ctxIn, ctxOut>>
vars   == <<inputs, ctl, locals, world, logs, pure>>

\* Bounds of the batch model.
MaxCustomers      == 3
MaxRows           == 2
MaxFolderTextUids == 1

NotRun == [ok |-> FALSE, val |-> <<"not run">>]
NoUid  == [n |-> 0, folderText |-> FALSE]
\* The target folder the user named at the prompt: it exists before the run.
TARGET == [n |-> 1, folderText |-> FALSE]
NoTemplate == [root_folder |-> <<>>, subfolders |-> <<>>, records |-> <<>>]

S_Docs  == <<"D", "o", "c", "s">>
S_Login == <<"L", "o", "g", "i", "n">>
S_login == <<"l", "o", "g", "i", "n">>
S_bob   == <<"b", "o", "b">>
S_title == <<"t", "i", "t", "l", "e">>

\* The structure templates of the model.  The first is the specification's
\* end-to-end scenario with the root folder named after the customer.
TemplateScenario ==
    [root_folder |-> <<TOKEN_NAME>>,
     subfolders  |-> <<S_Docs>>,
     records     |-> << [title |-> S_Login, folder |-> S_Docs,
                         fields |-> << <<S_login, S_bob>> >>] >>]
TemplateSharedTitle ==
    [root_folder |-> <<TOKEN_NAME>>,
     subfolders  |-> <<S_Docs, <<"A">>>>,
     records     |-> << [title |-> S_Login, folder |-> S_Docs,
                         fields |-> << <<S_login, S_bob>> >>],
                        [title |-> S_Login, folder |-> <<"B">>,
                         fields |-> << <<S_login, <<TOKEN_NAME>>>> >>] >>]
TemplateNoFolderKey ==
    [root_folder |-> <<"A">>,
     subfolders  |-> <<S_Docs>>,
     records     |-> << [title |-> S_Login, fields |-> <<>>] >>]
TemplateBare ==
    [root_folder |-> <<TOKEN_NAME, TOKEN_OTHER>>, subfolders |-> <<>>, records |-> <<>>]
Templates == {TemplateScenario, TemplateSharedTitle, TemplateNoFolderKey, TemplateBare}

Customer(name) == [name |-> name, email |-> <<>>, custom |-> <<>>]
CustomerNames  == {<<"A">>, <<"B">>, <<DQ>>}
\* What the user types at the e-mail and custom prompts of line 247-248.
PromptTexts    == {<<>>}

(***************************************************************************)
(* The vault.  An identifier is a number and the one thing the code reads  *)
(* in its text: whether it contains "folder" (line 207).  The vault hands  *)
(* out identifiers of either sort.                                         *)
(***************************************************************************)
NewUids ==
    {[n |-> nextUid, folderText |-> b] :
        b \in IF folderTexts < MaxFolderTextUids THEN BOOLEAN ELSE {FALSE}}
TakeUid(uid) ==
    /\ nextUid' = nextUid + 1
    /\ folderTexts' = folderTexts + (IF uid.folderText THEN 1 ELSE 0)

\* create_folder: the parent is set only when parent_uid is given.
create_folder(uid, name, parent_uid) ==
    [uid |-> uid, kind |-> "folder", name |-> name,
     parent |-> IF parent_uid # NoUid THEN parent_uid ELSE NoUid,
     data |-> <<>>, attachment |-> FALSE]

\* add_record_v3 of a RecordV3 on which only the title was set.
add_record_v3(uid, title, folder_uid) ==
    [uid |-> uid, kind |-> "record", name |-> title, parent |-> folder_uid,
     data |-> << <<S_title, title>> >>, attachment |-> FALSE]

\* FolderMixin.get_records_in_folder_tree: the records in the folder or below it.
RECURSIVE InTree(_, _, _)
InTree(folder_uid, uid, depth) ==
    \/ uid = folder_uid
    \/ /\ depth > 0
       /\ \E f \in vault : f.uid = uid /\ f.kind = "folder"
                           /\ InTree(folder_uid, f.parent, depth - 1)
\* A listing of the whole vault, whatever folder is asked for.
get_records_in_vault(folder_uid) ==
    {o \in vault : o.kind = "record"}
get_records_in_folder_tree(folder_uid) ==
    {o \in vault : o.kind = "record" /\ InTree(folder_uid, o.parent, 2)}
Listings(S) ==
    {l \in [1..Cardinality(S) -> S] : \A a, b \in DOMAIN l : a # b => l[a] # l[b]}
ToDicts(l) == [k \in DOMAIN l |-> [title |-> l[k].name, data |-> l[k].data]]

\* Line 207: the rollback picks the delete call by the identifier's text.
DeleteOp(uid) == IF uid.folderText THEN "folder" ELSE "record"
\* delete_folder / api.delete_record that succeeded: the object goes when the
\* call is the one for its kind.
Deleted(uid, op) == {o \in vault : ~(o.uid = uid /\ o.kind = op)}

(***************************************************************************)
(* An exception nothing catches: it leaves process_customer and, main      *)
(* having no handler around the call (lines 252-255), ends the run.        *)
(***************************************************************************)
Uncaught(kind) ==
    /\ pc' = "raised"
    /\ exc' = kind
    /\ mainPc' = "crashed"
    /\ UNCHANGED cur

Goto(label) ==
    /\ pc' = label
    /\ UNCHANGED <<mainPc, cur, exc>>

AfterSubfolders(t, k) ==
    IF k <= Len(t.subfolders) THEN "create_subfolder"
    ELSE IF Len(t.records) > 0 THEN "create_record"
    ELSE "build_context"
\* The record loop handing over to the PDF record of line 185.
AfterRecordsPublish(t, k) ==
    IF k <= Len(t.records) THEN "create_record" ELSE "create_pdf_record"
AfterRecords(t, k) ==
    IF k <= Len(t.records) THEN "create_record" ELSE "build_context"

(***************************************************************************)
(* main, lines 213-249: the command line, the login, the four prompts and  *)
(* the list of customers.                                                  *)
(***************************************************************************)
\* An option of the command line: absent (argparse leaves None) or given.
NotGiven   == [given |-> FALSE, val |-> <<>>]
Given(v)   == [given |-> TRUE, val |-> v]
COLON      == ":"

\* str.split(':'): the pieces between the colons, empty pieces included.
\* The argument taken whole, as if it held no separator.
SplitNever(s) == <<s>>
RECURSIVE Split(_)
Split(s) ==
    IF s = <<>> THEN << <<>> >>
    ELSE LET r == Split(Tail(s))
         IN  IF Head(s) = COLON THEN << <<>> >> \o r
             ELSE << <<Head(s)>> \o r[1] >> \o Tail(r)

\* Lines 239 and 243: the first three pieces, '' for a piece that is missing.
CustomerOf(parts) ==
    [name   |-> parts[1],
     email  |-> IF Len(parts) > 1 THEN parts[2] ELSE <<>>,
     custom |-> IF Len(parts) > 2 THEN parts[3] ELSE <<>>]

\* Lines 237-239: one customer per row that is not empty.
RECURSIVE CustomersOfCsv(_)
CustomersOfCsv(rows) ==
    IF rows = <<>> THEN <<>>
    ELSE (IF Head(rows) # <<>> THEN <<CustomerOf(Head(rows))>> ELSE <<>>)
         \o CustomersOfCsv(Tail(rows))

\* Lines 241-243: one customer per --customer argument.
CustomersOfArgs(list) == [k \in DOMAIN list |-> CustomerOf(Split(list[k]))]

\* validate_record_uid / validate_folder: whether the vault knows the value.
KNOWN_UID   == <<"k", "n", "o", "w", "n">>
UNKNOWN_UID == <<"u", "n", "k", "n", "o", "w", "n">>
PromptValues == {KNOWN_UID, UNKNOWN_UID}
validate(text) == text = KNOWN_UID
PROMPT_KEYS == <<"json_uid", "word_uid", "source_folder", "target_folder">>

\* Line 223, authenticate (lines 59-71): a login that raises is logged and
\* ends the process with sys.exit(1).
\* A login whose failure is logged and passed over.
MainAuthenticateGoesOn ==
    /\ mainPc = "authenticate"
    /\ mainPc' = "prompt"
    /\ \/ UNCHANGED logged
       \/ logged' = logged \cup {[customer |-> 0, level |-> "error"]}
    /\ UNCHANGED <<inputs, cur, pc, exc, locals, world, created, deleteCalls, returned, pure>>
MainAuthenticate ==
    /\ mainPc = "authenticate"
    /\ \/ /\ mainPc' = "prompt"
          /\ UNCHANGED <<exc, logged>>
       \/ /\ mainPc' = "exited"
          /\ exc' = "SystemExit"
          /\ logged' = logged \cup {[customer |-> 0, level |-> "error"]}
    /\ UNCHANGED <<inputs, cur, pc, locals, world, created, deleteCalls, returned, pure>>

\* Lines 226-229, one turn of the loop of get_user_input (lines 75-80): a
\* value the validator rejects is answered with a warning and the same
\* prompt, whatever the command line says.
MainPrompt ==
    /\ mainPc = "prompt"
    /\ Len(answers) < Len(PROMPT_KEYS)
    /\ value' \in PromptValues
    /\ IF validate(value')
       THEN /\ answers' = Append(answers, value')
            /\ mainPc' = IF Len(answers') = Len(PROMPT_KEYS) THEN "customers" ELSE "prompt"
       ELSE UNCHANGED <<answers, mainPc>>
    /\ UNCHANGED <<customers, json_template, word_uid_bound, args, cur, pc, exc, locals,
                   world, logs, pure>>

\* Lines 232-249.  Opening the CSV file is outside any handler.
MainCustomers ==
    /\ mainPc = "customers"
    /\ \/ /\ args.bulk /\ args.csv.given
          /\ \/ /\ customers' = CustomersOfCsv(args.csv.val)
                /\ mainPc' = "loop"
                /\ UNCHANGED exc
             \/ /\ mainPc' = "crashed"
                /\ exc' = "open"
                /\ UNCHANGED customers
       \/ /\ args.bulk /\ ~args.csv.given /\ args.customer.given
          /\ customers' = CustomersOfArgs(args.customer.val)
          /\ mainPc' = "loop"
          /\ UNCHANGED exc
       \/ /\ args.bulk /\ ~args.csv.given /\ ~args.customer.given
          /\ customers' = <<>>
          /\ mainPc' = "loop"
          /\ UNCHANGED exc
       \/ /\ ~args.bulk
          /\ \E name \in CustomerNames, email \in PromptTexts, custom \in PromptTexts :
                customers' = <<[name |-> name, email |-> email, custom |-> custom]>>
          /\ mainPc' = "loop"
          /\ UNCHANGED exc
    /\ created' = [c \in DOMAIN customers' |-> {}]
    /\ UNCHANGED <<json_template, word_uid_bound, args, answers, value, cur, pc, locals,
                   world, deleteCalls, logged, returned, pure>>

(***************************************************************************)
(* main, lines 251-256.                                                    *)
(***************************************************************************)
\* Line 253, download_json_template, then the call of line 255.
MainNextCustomer ==
    /\ mainPc = "loop"
    /\ cur < Len(customers)
    /\ cur' = cur + 1
    /\ \/ /\ mainPc' = "crashed"
          /\ exc' = "download_json_template"
          /\ UNCHANGED <<pc, locals>>
       \/ /\ mainPc' = "call"
          /\ pc' = "substitute"
          /\ exc' = "none"
          /\ template' = NoTemplate
          /\ root_folder_uid' = NoUid
          /\ subfolder_uids' = <<>>
          /\ i' = 0
          /\ context' = <<>>
          /\ pdf_uid' = NoUid
          /\ created_uids' = <<>>
    /\ UNCHANGED <<inputs, world, logs, pure>>

\* Line 256.
MainCompleted ==
    /\ mainPc = "loop"
    /\ cur = Len(customers)
    /\ mainPc' = "completed"
    /\ UNCHANGED <<inputs, cur, pc, exc, locals, world, logs, pure>>

(***************************************************************************)
(* process_customer, lines 142-211, one action per statement.              *)
(***************************************************************************)
\* Line 144.
PC_Substitute ==
    /\ mainPc = "call" /\ pc = "substitute"
    /\ LET r == substitute_placeholders(json_template, customers[cur])
       IN  \/ /\ ~r.ok
              /\ Uncaught("substitute_placeholders")
              /\ UNCHANGED template
           \/ /\ r.ok
              /\ template' = r.val
              /\ Goto("create_root")
    /\ UNCHANGED <<inputs, root_folder_uid, subfolder_uids, i, context, pdf_uid,
                   created_uids, world, logs, pure>>

\* Line 145.
PC_CreateRoot ==
    /\ mainPc = "call" /\ pc = "create_root"
    /\ \/ /\ Uncaught("create_folder")
          /\ UNCHANGED <<root_folder_uid, i, vault, nextUid, folderTexts, created>>
       \/ \E uid \in NewUids :
          /\ TakeUid(uid)
          /\ vault' = vault \cup {create_folder(uid, template.root_folder, TARGET)}
          /\ root_folder_uid' = uid
          /\ created' = [created EXCEPT ![cur] = @ \cup {uid}]
          /\ i' = 1
          /\ Goto(AfterSubfolders(template, 1))
    /\ UNCHANGED <<inputs, template, subfolder_uids, context, pdf_uid, created_uids,
                   tmpFiles, deleteCalls, logged, returned, pure>>

\* Lines 147-149, one turn of the loop.
PC_CreateSubfolder ==
    /\ mainPc = "call" /\ pc = "create_subfolder"
    /\ \/ /\ Uncaught("create_folder")
          /\ UNCHANGED <<subfolder_uids, i, vault, nextUid, folderTexts, created>>
       \/ \E uid \in NewUids :
          /\ TakeUid(uid)
          /\ vault' = vault \cup {create_folder(uid, template.subfolders[i], root_folder_uid)}
          /\ subfolder_uids' = DictSet(subfolder_uids, template.subfolders[i], uid)
          /\ created' = [created EXCEPT ![cur] = @ \cup {uid}]
          /\ i' = IF i < Len(template.subfolders) THEN i + 1 ELSE 1
          /\ Goto(AfterSubfolders(template, i + 1))
    /\ UNCHANGED <<inputs, template, root_folder_uid, context, pdf_uid, created_uids,
                   tmpFiles, deleteCalls, logged, returned, pure>>

\* Lines 150-157, one turn of the loop.
PC_CreateRecord ==
    /\ mainPc = "call" /\ pc = "create_record"
    /\ LET rec_data == template.records[i]
       IN  \/ /\ "folder" \notin DOMAIN rec_data          \* line 151: KeyError
              /\ Uncaught("KeyError")
              /\ UNCHANGED <<i, vault, nextUid, folderTexts, created>>
           \/ /\ "folder" \in DOMAIN rec_data
              /\ Uncaught("add_record_v3")
              /\ UNCHANGED <<i, vault, nextUid, folderTexts, created>>
           \/ /\ "folder" \in DOMAIN rec_data
              /\ \E uid \in NewUids :
                 LET folder_uid == DictGet(subfolder_uids, rec_data.folder, root_folder_uid)
                 IN  /\ TakeUid(uid)
                     /\ vault' = vault \cup {add_record_v3(uid, rec_data.title, folder_uid)}
                     /\ created' = [created EXCEPT ![cur] = @ \cup {uid}]
                     /\ i' = i + 1
                     /\ Goto(AfterRecords(template, i + 1))
    /\ UNCHANGED <<inputs, template, root_folder_uid, subfolder_uids, context, pdf_uid,
                   created_uids, tmpFiles, deleteCalls, logged, returned, pure>>

\* Lines 159-163.
PC_BuildContext ==
    /\ mainPc = "call" /\ pc = "build_context"
    /\ \/ /\ Uncaught("get_folder_records")
          /\ UNCHANGED context
       \/ \E l \in Listings(get_records_in_folder_tree(root_folder_uid)) :
          /\ context' = BuildContext(customers[cur], get_folder_records(ToDicts(l)))
          /\ Goto("download_word")
    /\ UNCHANGED <<inputs, template, root_folder_uid, subfolder_uids, i, pdf_uid,
                   created_uids, world, logs, pure>>

\* Line 164.  word_uid is a free name of process_customer: main's word_uid is a
\* local of main, so the name resolves only if something bound it in the module.
PC_DownloadWord ==
    /\ mainPc = "call" /\ pc = "download_word"
    /\ \/ /\ ~word_uid_bound
          /\ Uncaught("NameError")
       \/ /\ word_uid_bound
          /\ Uncaught("download_word_template")
       \/ /\ word_uid_bound
          /\ Goto("render")
    /\ UNCHANGED <<inputs, locals, world, logs, pure>>

\* Lines 165-166.
PC_Render ==
    /\ mainPc = "call" /\ pc = "render"
    /\ \/ Uncaught("render")
       \/ Goto("save_docx")
    /\ UNCHANGED <<inputs, locals, world, logs, pure>>

\* Lines 167-169: the temporary .docx exists from the NamedTemporaryFile call on
\* (delete=False), whether or not doc.save then fails.
PC_SaveDocx ==
    /\ mainPc = "call" /\ pc = "save_docx"
    /\ tmpFiles' = tmpFiles \cup {[customer |-> cur, suffix |-> ".docx"]}
    /\ \/ Uncaught("save")
       \/ Goto("make_pdf_tmp")
    /\ UNCHANGED <<inputs, locals, vault, nextUid, folderTexts, logs, pure>>

\* Lines 170-171.
PC_MakePdfTmp ==
    /\ mainPc = "call" /\ pc = "make_pdf_tmp"
    /\ tmpFiles' = tmpFiles \cup {[customer |-> cur, suffix |-> ".pdf"]}
    /\ Goto("convert")
    /\ UNCHANGED <<inputs, locals, vault, nextUid, folderTexts, logs, pure>>

\* Lines 172-176, the Word automation calls.
PC_Convert ==
    /\ mainPc = "call" /\ pc = "convert"
    /\ \/ Uncaught("convert")
       \/ Goto("read_pdf")
    /\ UNCHANGED <<inputs, locals, world, logs, pure>>

\* Lines 177-178.
PC_ReadPdf ==
    /\ mainPc = "call" /\ pc = "read_pdf"
    /\ \/ Uncaught("read_pdf")
       \/ Goto("remove_tmp")
    /\ UNCHANGED <<inputs, locals, world, logs, pure>>

\* Lines 179-180.
PC_RemoveTmp ==
    /\ mainPc = "call" /\ pc = "remove_tmp"
    /\ tmpFiles' = tmpFiles \ {[customer |-> cur, suffix |-> ".docx"],
                               [customer |-> cur, suffix |-> ".pdf"]}
    /\ Goto("create_pdf_record")
    /\ UNCHANGED <<inputs, locals, vault, nextUid, folderTexts, logs, pure>>

\* Lines 182-185.
PC_CreatePdfRecord ==
    /\ mainPc = "call" /\ pc = "create_pdf_record"
    /\ \/ /\ Uncaught("add_record_v3")
          /\ UNCHANGED <<pdf_uid, vault, nextUid, folderTexts, created>>
       \/ \E uid \in NewUids :
          /\ TakeUid(uid)
          /\ vault' = vault \cup
                {add_record_v3(uid, customers[cur].name \o <<"_", "p", "d", "f">>,
                               root_folder_uid)}
          /\ pdf_uid' = uid
          /\ created' = [created EXCEPT ![cur] = @ \cup {uid}]
          /\ Goto("upload")
    /\ UNCHANGED <<inputs, template, root_folder_uid, subfolder_uids, i, context,
                   created_uids, tmpFiles, deleteCalls, logged, returned, pure>>

\* Lines 187-190.
PC_Upload ==
    /\ mainPc = "call" /\ pc = "upload"
    /\ \/ /\ Uncaught("upload_attachments")
          /\ UNCHANGED vault
       \/ /\ vault' = {IF o.uid = pdf_uid THEN [o EXCEPT !.attachment = TRUE] ELSE o
                       : o \in vault}
          /\ Goto("set_permission")
    /\ UNCHANGED <<inputs, locals, nextUid, folderTexts, tmpFiles, logs, pure>>

\* Line 192: the identifiers the rollback will walk.
CreatedUids == <<root_folder_uid>> \o DictValues(subfolder_uids) \o <<pdf_uid>>

\* Lines 203-205: the handler logs the error and starts the rollback loop.
Caught ==
    /\ logged' = logged \cup {[customer |-> cur, level |-> "error"]}
    /\ exc' = "sharing"
    /\ pc' = "rollback"
    /\ i' = 1
    /\ UNCHANGED <<mainPc, cur>>

\* Lines 192-198.
PC_SetPermission ==
    /\ mainPc = "call" /\ pc = "set_permission"
    /\ created_uids' = CreatedUids
    /\ \/ Caught
       \/ /\ Goto("create_share")
          /\ UNCHANGED <<i, logged>>
    /\ UNCHANGED <<inputs, template, root_folder_uid, subfolder_uids, context, pdf_uid,
                   world, created, deleteCalls, returned, pure>>

\* Lines 200-202; on success process_customer returns and the for loop goes on.
PC_CreateShare ==
    /\ mainPc = "call" /\ pc = "create_share"
    /\ \/ /\ Caught
          /\ UNCHANGED returned
       \/ /\ logged' = logged \cup {[customer |-> cur, level |-> "info"]}
          /\ returned' = returned \cup {cur}
          /\ pc' = "none"
          /\ mainPc' = "loop"
          /\ UNCHANGED <<cur, exc, i>>
    /\ UNCHANGED <<inputs, template, root_folder_uid, subfolder_uids, context, pdf_uid,
                   created_uids, world, created, deleteCalls, pure>>

\* Lines 206-210, one turn of the loop: a delete call that raises leaves the
\* handler with that exception.
PC_RollbackDelete ==
    /\ mainPc = "call" /\ pc = "rollback"
    /\ i <= Len(created_uids)
    /\ LET uid == created_uids[i]
           op  == DeleteOp(uid)
       IN  \/ /\ deleteCalls' = deleteCalls \cup {[uid |-> uid, op |-> op, ok |-> FALSE]}
              /\ Uncaught("delete")
              /\ UNCHANGED <<i, vault>>
           \/ /\ deleteCalls' = deleteCalls \cup {[uid |-> uid, op |-> op, ok |-> TRUE]}
              /\ vault' = Deleted(uid, op)
              /\ i' = i + 1
              /\ Goto("rollback")
    /\ UNCHANGED <<inputs, template, root_folder_uid, subfolder_uids, context, pdf_uid,
                   created_uids, nextUid, folderTexts, tmpFiles, created, logged,
                   returned, pure>>

\* Line 211: the bare raise re-raises the exception the handler caught.
PC_Reraise ==
    /\ mainPc = "call" /\ pc = "rollback"
    /\ i > Len(created_uids)
    /\ Uncaught(exc)
    /\ UNCHANGED <<inputs, locals, world, logs, pure>>

process_customer ==
    \/ PC_Substitute \/ PC_CreateRoot \/ PC_CreateSubfolder \/ PC_CreateRecord
    \/ PC_BuildContext \/ PC_DownloadWord \/ PC_Render \/ PC_SaveDocx
    \/ PC_MakePdfTmp \/ PC_Convert \/ PC_ReadPdf \/ PC_RemoveTmp
    \/ PC_CreatePdfRecord \/ PC_Upload \/ PC_SetPermission \/ PC_CreateShare
    \/ PC_RollbackDelete \/ PC_Reraise

\* The command lines of the model.  --customer arguments: up to MaxCustomers
\* plain names, and two lists with colons in them.  CSV files: up to MaxRows
\* rows of no, one, two or three cells.
PlainArgs  == CustomerNames
ColonArgs  == { << <<"A", COLON, "e", COLON, "c", COLON, "x">> >>,
                << <<"B", COLON, COLON, "c">>, <<"A", COLON>> >> }
ArgLists   == (SeqsUpTo(PlainArgs, MaxCustomers) \ {<<>>}) \cup ColonArgs
CsvRows    == { <<>>, << <<"A">> >>, << <<"B">>, <<"e">> >>,
                << <<DQ>>, <<"e">>, <<"c">>, <<"x">> >> }
CsvFiles   == SeqsUpTo(CsvRows, MaxRows)
SampleCsv  == << << <<"B">>, <<"e">> >> >>
SampleArgs == << <<"A">> >>
CommandLines ==
    {a \in [bulk : BOOLEAN,
            csv : {NotGiven} \cup {Given(f) : f \in CsvFiles},
            customer : {NotGiven} \cup {Given(l) : l \in ArgLists}] :
        \/ a.bulk /\ ~a.csv.given
        \/ a.bulk /\ ~a.customer.given
        \/ /\ a.csv \in {NotGiven, Given(SampleCsv)}
           /\ a.customer \in {NotGiven, Given(SampleArgs)}}
NoCommandLine == [bulk |-> FALSE, csv |-> NotGiven, customer |-> NotGiven]

\* keeper_pdf_system.py and upload_templates_to_vault.py not running.
NoChoice == <<"(none)">>
SystemOff ==
    /\ sys_pc = "off"
    /\ call_pc = "none"
    /\ folder_cache = {}
    /\ sys_customers = <<>>
    /\ choice = NoChoice
    /\ pos = 0
    /\ sys_success_count = 0
    /\ calls = <<>>
    /\ sys_printed = <<>>
UploadOff ==
    /\ upl_pc = "off"
    /\ files = {}
    /\ confirm = NoChoice
    /\ upl_i = 0
    /\ upl_success_count = 0
    /\ upl_records = {}
    /\ upl_log = <<>>

MainFresh ==
    /\ answers = <<>>
    /\ value = <<>>
    /\ cur = 0
    /\ pc = "none"
    /\ exc = "none"
    /\ template = NoTemplate
    /\ root_folder_uid = NoUid
    /\ subfolder_uids = <<>>
    /\ i = 0
    /\ context = <<>>
    /\ pdf_uid = NoUid
    /\ created_uids = <<>>
    /\ vault = {create_folder(TARGET, <<>>, NoUid)}
    /\ nextUid = TARGET.n + 1
    /\ folderTexts = 0
    /\ tmpFiles = {}
    /\ created = [c \in DOMAIN customers |-> {}]
    /\ deleteCalls = {}
    /\ logged = {}
    /\ returned = {}
\* The main variables before the first customer.
ExtractionOff ==
    /\ vd_pc = "off"
    /\ vd_name = <<>>
    /\ vd_records = <<>>
    /\ vd_i = 0
    /\ vault_data = <<>>
    /\ vd_branch = <<>>
    /\ vd_context = NotRun

MainStart ==
    /\ mainPc = "authenticate"
    /\ SystemOff
    /\ UploadOff
    /\ ExtractionOff
    /\ MainFresh
PureIdle ==
    /\ subIn = [text |-> <<>>, name |-> <<>>]
    /\ subOut = NotRun
    /\ ctxIn = [name |-> <<>>, records |-> <<>>]
    /\ ctxOut = NotRun

(***************************************************************************)
(* The batch: a list of customers, one of the structure templates, and     *)
(* the module either left as written (word_uid unbound: main binds only a  *)
(* local of that name) or with word_uid bound by whoever imported it.      *)
(***************************************************************************)
Init ==
    /\ args \in CommandLines
    /\ customers = <<>>
    /\ json_template \in Templates
    /\ word_uid_bound \in BOOLEAN
    /\ MainStart
    /\ PureIdle

\* keeper_pdf_generator.py not running.
GeneratorOff ==
    /\ customers = <<>>
    /\ json_template = NoTemplate
    /\ word_uid_bound = FALSE
    /\ args = NoCommandLine
    /\ mainPc = "off"
    /\ MainFresh
    /\ PureIdle

Next ==
    \/ MainAuthenticate \/ MainPrompt \/ MainCustomers
    \/ MainNextCustomer \/ MainCompleted \/ process_customer

Spec == Init /\ [][Next]_vars

(***************************************************************************)
(* substitute_placeholders on its own, over every text and every customer  *)
(* name of the bounded alphabets.                                          *)
(***************************************************************************)
SubstTemplateOf(text) ==
    [root_folder |-> text,
     subfolders  |-> <<text>>,
     records     |-> << [title |-> text, folder |-> text,
                         fields |-> << <<S_login, text>> >>] >>]

InitSubst ==
    /\ args = NoCommandLine
    /\ customers = <<>>
    /\ json_template = NoTemplate
    /\ word_uid_bound = FALSE
    /\ MainStart
    /\ subIn \in [text : SeqsUpTo(TextAtoms, MaxTextLen),
                  name : SeqsUpTo(NameChars, MaxNameLen)]
    /\ subOut = NotRun
    /\ ctxIn = [name |-> <<>>, records |-> <<>>]
    /\ ctxOut = NotRun

SubstCall ==
    /\ subOut = NotRun
    /\ subOut' = substitute_placeholders(SubstTemplateOf(subIn.text), Customer(subIn.name))
    /\ UNCHANGED <<inputs, ctl, locals, world, logs, subIn, ctxIn, ctxOut, system, upload, extraction>>

NextSubst == SubstCall

SpecSubst == InitSubst /\ [][NextSubst]_vars

(***************************************************************************)
(* The context aggregation on its own (get_folder_records, then lines      *)
(* 159-163), over every listing of records of the bounded alphabets.       *)
(***************************************************************************)
MaxTreeRecords == 2
MaxFields      == 1

CtxTitles == {<<"a">>, <<"a", "_", "b">>, <<"c", "u", "s", "t", "o", "m", "e", "r">>}
CtxFields == << <<"c">>, <<"b", "_", "c">>, <<"n", "a", "m", "e">> >>
CtxValues == {<<"x">>, <<"y">>}
\* The data of one record: some of the fields, each with a value, listed in
\* the order of CtxFields (the order of the fields within one record changes
\* neither the keys nor the number of entries).
CtxDatas ==
    {[k \in DOMAIN d |-> <<CtxFields[d[k][1]], d[k][2]>>] :
        d \in {e \in SeqsUpTo((DOMAIN CtxFields) \X CtxValues, MaxFields) :
                  \A a, b \in DOMAIN e : a < b => e[a][1] < e[b][1]}}
CtxRecords == [title : CtxTitles, data : CtxDatas]

InitContext ==
    /\ args = NoCommandLine
    /\ customers = <<>>
    /\ json_template = NoTemplate
    /\ word_uid_bound = FALSE
    /\ MainStart
    /\ subIn = [text |-> <<>>, name |-> <<>>]
    /\ subOut = NotRun
    /\ ctxIn \in [name : {<<"A">>}, records : SeqsUpTo(CtxRecords, MaxTreeRecords)]
    /\ ctxOut = NotRun

ContextCall ==
    /\ ctxOut = NotRun
    /\ ctxOut' = Ok(BuildContext(Customer(ctxIn.name), get_folder_records(ctxIn.records)))
    /\ UNCHANGED <<inputs, ctl, locals, world, logs, subIn, subOut, ctxIn, system, upload, extraction>>

NextContext == ContextCall

SpecContext == InitContext /\ [][NextContext]_vars

(***************************************************************************)
(* keeper_pdf_system.py: KeeperPDFGenerator.run with authenticate,          *)
(* get_customer_folders, the menu and process_customer.                     *)
(***************************************************************************)
\* Text of the menu and of the confirmation: a space, letters, digits, a
\* sign, and SUP2, the superscript two, a character str.isdigit accepts and
\* int rejects.
SPACE == " "
SUP2  == "sup2"
MaxChoiceLen  == 2
MaxSysRecords == 1
ChoiceChars == {"a", "A", SPACE, "0", "1", "2", "5", "+", SUP2}

\* str.strip: leading and trailing whitespace goes.
RECURSIVE LStrip(_)
LStrip(s) == IF s # <<>> /\ Head(s) = SPACE THEN LStrip(Tail(s)) ELSE s
RECURSIVE RStrip(_)
RStrip(s) ==
    IF s # <<>> /\ s[Len(s)] = SPACE THEN RStrip(SubSeq(s, 1, Len(s) - 1)) ELSE s
\* The text as typed.
StripNothing(s) == s
Strip(s) == RStrip(LStrip(s))
\* str.upper and str.lower on the characters of the model.
Upper(s) == [k \in DOMAIN s |-> CASE s[k] = "a" -> "A" [] s[k] = "y" -> "Y"
                                  [] s[k] = "n" -> "N" [] OTHER -> s[k]]
Lower(s) == [k \in DOMAIN s |-> CASE s[k] = "A" -> "a" [] s[k] = "Y" -> "y"
                                  [] s[k] = "N" -> "n" [] s[k] = "B" -> "b"
                                  [] s[k] = "E" -> "e" [] s[k] = "L" -> "l"
                                  [] s[k] = "R" -> "r" [] s[k] = "U" -> "u"
                                  [] OTHER -> s[k]]
\* str.isdigit: not empty, and every character a digit of some kind.
DecimalDigits == {"0", "1", "2", "5"}
IsDigit(s) == s # <<>> /\ \A k \in DOMAIN s : s[k] \in DecimalDigits \cup {SUP2}
DigitValue(ch) == CASE ch = "0" -> 0 [] ch = "1" -> 1 [] ch = "2" -> 2 [] ch = "5" -> 5
\* int of a string str.isdigit accepted: ValueError on a digit that is not decimal.
RECURSIVE IntFrom(_, _)
IntFrom(s, acc) ==
    IF s = <<>> THEN Ok(acc)
    ELSE IF Head(s) \notin DecimalDigits THEN Raised
    ELSE IntFrom(Tail(s), 10 * acc + DigitValue(Head(s)))
int(s) == IntFrom(s, 0)

\* Lines 74-79, in the order of the dict.
CUSTOMER_FOLDERS ==
    << [uid |-> "hoC-cSZloyT3rWmPHTRlpA", category |-> "intern"],
       [uid |-> "W9LGwI-3uVeBaoYh6r-iEQ", category |-> "extern"],
       [uid |-> "HkGCEGzahSpXb2cIwA4jNQ", category |-> "intern"],
       [uid |-> "GK-qlciy45TBw_g6407gWw", category |-> "extern"] >>
\* Lines 81-89: the known folders the cache holds, in that order.
InCache(folders, cache) == SelectSeq(folders, LAMBDA f : f.uid \in cache)
get_customer_folders == InCache(CUSTOMER_FOLDERS, folder_cache)

Printed(kind, a, b) == [kind |-> kind, a |-> a, b |-> b]
SysPrint(kind, a, b) == sys_printed' = Append(sys_printed, Printed(kind, a, b))

\* Lines 334-335, authenticate (lines 49-66): a login that raises gives False
\* and run returns.
SysAuthenticate ==
    /\ sys_pc = "authenticate"
    /\ \/ sys_pc' = "customers" /\ UNCHANGED sys_printed
       \/ sys_pc' = "done" /\ SysPrint("authentication failed", 0, 0)
    /\ UNCHANGED <<call_pc, folder_cache, sys_customers, choice, pos, sys_success_count,
                   calls, generator, upload, extraction>>

\* Lines 338-350: get_customer_folders gives [] when it raises; run returns on
\* an empty list and prints the list and the menu otherwise.
SysCustomers ==
    /\ sys_pc = "customers"
    /\ \E found \in {get_customer_folders, <<>>} :
          /\ sys_customers' = found
          /\ IF found = <<>>
             THEN sys_pc' = "done" /\ SysPrint("no customers", 0, 0)
             ELSE sys_pc' = "menu" /\ SysPrint("list", Len(found), 0)
    /\ UNCHANGED <<call_pc, folder_cache, choice, pos, sys_success_count, calls,
                   generator, upload, extraction>>

\* Lines 353-371 up to the first call: the branch the typed text selects.
SysMenu ==
    /\ sys_pc = "menu"
    /\ \E typed \in SeqsUpTo(ChoiceChars, MaxChoiceLen) :
          /\ choice' = typed
          /\ LET c == Upper(Strip(typed))
             IN  IF c = <<"A">>
                 THEN /\ sys_pc' = "batch"
                      /\ pos' = 1
                      /\ UNCHANGED sys_printed
                 ELSE IF ~IsDigit(c)
                 THEN /\ sys_pc' = "done"
                      /\ SysPrint("invalid", 0, 0)
                      /\ UNCHANGED pos
                 ELSE IF ~int(c).ok
                 THEN /\ sys_pc' = "done"
                      /\ SysPrint("cancelled", 0, 0)
                      /\ UNCHANGED pos
                 ELSE IF 1 <= int(c).val /\ int(c).val <= Len(sys_customers)
                 THEN /\ sys_pc' = "single"
                      /\ pos' = int(c).val
                      /\ UNCHANGED sys_printed
                 ELSE /\ sys_pc' = "done"
                      /\ SysPrint("invalid", 0, 0)
                      /\ UNCHANGED pos
    /\ UNCHANGED <<call_pc, folder_cache, sys_customers, sys_success_count, calls,
                   generator, upload, extraction>>

\* One call of process_customer as the log keeps it: the customer, what
\* os.path.exists said, how many records were extracted, what generate_pdf
\* returned, and the value returned.
NewCall(k) ==
    [customer |-> k, exists |-> "unchecked", records |-> 0,
     pdf |-> "not called", result |-> "running"]
Current == calls[Len(calls)]
SetCurrent(call) == calls' = [calls EXCEPT ![Len(calls)] = call]

\* Lines 357-358 and 364-365: the call of process_customer.
SysCall ==
    /\ sys_pc \in {"batch", "single"}
    /\ call_pc = "none"
    /\ pos <= Len(sys_customers)
    /\ calls' = Append(calls, NewCall(pos))
    /\ call_pc' = "template"
    /\ UNCHANGED <<sys_pc, folder_cache, sys_customers, choice, pos, sys_success_count,
                   sys_printed, generator, upload, extraction>>

\* process_customer returning into a loop that ends at the first False.
ReturnOrStop(call, result) ==
    /\ SetCurrent([call EXCEPT !.result = IF result THEN "true" ELSE "false"])
    /\ call_pc' = "none"
    /\ sys_pc' = IF sys_pc = "batch" /\ result THEN "batch" ELSE "done"
    /\ sys_success_count' = sys_success_count + (IF result THEN 1 ELSE 0)
    /\ pos' = pos + 1
\* process_customer returns: the 'A' branch counts a True and takes the next
\* customer (lines 358-359), the numbered branch is done (line 365).
Return(call, result) ==
    /\ SetCurrent([call EXCEPT !.result = IF result THEN "true" ELSE "false"])
    /\ call_pc' = "none"
    /\ IF sys_pc = "batch"
       THEN /\ sys_success_count' = sys_success_count + (IF result THEN 1 ELSE 0)
            /\ pos' = pos + 1
            /\ UNCHANGED sys_pc
       ELSE /\ sys_pc' = "done"
            /\ UNCHANGED <<sys_success_count, pos>>

\* Lines 303-306.  Both categories of CUSTOMER_FOLDERS have a template path.
PCS_Template ==
    /\ call_pc = "template"
    /\ \E there \in BOOLEAN :
          IF there
          THEN /\ SetCurrent([Current EXCEPT !.exists = "yes"])
               /\ call_pc' = "extract"
               /\ UNCHANGED <<sys_pc, sys_success_count, pos>>
          ELSE Return([Current EXCEPT !.exists = "no"], FALSE)
    /\ UNCHANGED <<folder_cache, sys_customers, choice, sys_printed, generator, upload, extraction>>

\* Lines 309-312: extract_customer_data gives the records it could load, none
\* when the folder is not in the cache or when it raises.
PCS_Extract ==
    /\ call_pc = "extract"
    /\ \E n \in 0..MaxSysRecords :
          IF n > 0
          THEN /\ SetCurrent([Current EXCEPT !.records = n])
               /\ call_pc' = "generate"
               /\ UNCHANGED <<sys_pc, sys_success_count, pos>>
          ELSE Return(Current, FALSE)
    /\ UNCHANGED <<folder_cache, sys_customers, choice, sys_printed, generator, upload, extraction>>

\* generate_pdf, lines 267-296: the path of the PDF, or None when anything
\* in it raised.
generate_pdf_unguarded(raised) == IF raised THEN "raised" ELSE "path"
generate_pdf(raised) == IF raised THEN "None" ELSE "path"
\* Lines 321-326.
ResultOf(pdf_path) == pdf_path # "None"

\* Lines 315-326.
PCS_Generate ==
    /\ call_pc = "generate"
    /\ \E raised \in BOOLEAN :
          LET pdf_path == generate_pdf(raised)
          IN  Return([Current EXCEPT !.pdf = pdf_path], ResultOf(pdf_path))
    /\ UNCHANGED <<folder_cache, sys_customers, choice, sys_printed, generator, upload, extraction>>

\* Line 361.
SysSummary ==
    /\ sys_pc = "batch"
    /\ call_pc = "none"
    /\ pos > Len(sys_customers)
    /\ sys_pc' = "done"
    /\ SysPrint("summary", sys_success_count, Len(sys_customers))
    /\ UNCHANGED <<call_pc, folder_cache, sys_customers, choice, pos, sys_success_count,
                   calls, generator, upload, extraction>>

InitSystem ==
    /\ GeneratorOff
    /\ UploadOff
    /\ ExtractionOff
    /\ sys_pc = "authenticate"
    /\ call_pc = "none"
    /\ folder_cache \in SUBSET {CUSTOMER_FOLDERS[k].uid : k \in DOMAIN CUSTOMER_FOLDERS}
    /\ sys_customers = <<>>
    /\ choice = NoChoice
    /\ pos = 0
    /\ sys_success_count = 0
    /\ calls = <<>>
    /\ sys_printed = <<>>

NextSystem ==
    \/ SysAuthenticate \/ SysCustomers \/ SysMenu \/ SysCall
    \/ PCS_Template \/ PCS_Extract \/ PCS_Generate \/ SysSummary

SpecSystem == InitSystem /\ [][NextSystem]_vars

(***************************************************************************)
(* keeper_pdf_system.py: extract_vault_data and build_template_context on  *)
(* their own, as process_customer calls them (lines 315-316), over lists   *)
(* of records as _extract_record_fields builds them: a type and a dict of  *)
(* fields, every value a string.  Text is a sequence of characters.        *)
(***************************************************************************)
MaxVdRecords == 3

\* 'sub in s' on strings.
Contains(s, sub) ==
    \E k \in 0..(Len(s) - Len(sub)) : SubSeq(s, k + 1, k + Len(sub)) = sub

T_MAIL       == <<"E", "-", "M", "a", "i", "l", "-", "P", "o", "s", "t", "f", "a", "c", "h">>
T_WEBSITE    == <<"W", "e", "b", "s", "i", "t", "e", "-", "L", "o", "g", "i", "n">>
T_STATISTICS == <<"W", "e", "b", "-", "S", "t", "a", "t", "i", "s", "t", "i", "k", "-", "L", "o", "g", "i", "n">>
T_WEBMAIL    == <<"W", "e", "b", "m", "a", "i", "l", "-", "U", "R", "L">>
S_email      == <<"e", "m", "a", "i", "l">>
S_password   == <<"p", "a", "s", "s", "w", "o", "r", "d">>
S_url        == <<"u", "r", "l">>

\* Lines 141 and 148: str of the one-element list a field's value is.
Quoted(text) == <<"[", "'">> \o text \o <<"'", "]">>

\* Lines 158-164, for the strings _extract_record_fields stores: the text
\* between "['" and "']" when the value has that form (the slice [2:-2], empty
\* when the two marks overlap), else the value itself.
clean_field_value(text) ==
    IF /\ Len(text) >= 2
       /\ SubSeq(text, 1, 2) = <<"[", "'">>
       /\ SubSeq(text, Len(text) - 1, Len(text)) = <<"'", "]">>
    THEN SubSeq(text, 3, Len(text) - 2)
    ELSE text

\* Lines 168-178.
EMPTY_VAULT_DATA ==
    [emails |-> <<>>, webmail_url |-> <<>>,
     website_login |-> <<>>, website_password |-> <<>>, website_url |-> <<>>,
     statistics_login |-> <<>>, statistics_password |-> <<>>, statistics_url |-> <<>>,
     smtp_server |-> <<>>]

\* Lines 185, 197, 206, 215: the if/elif chain on the record's type.
RecordBranch(record_type) ==
    IF Contains(record_type, T_MAIL) THEN "emails"
    ELSE IF Contains(record_type, T_WEBSITE) THEN "website"
    ELSE IF Contains(record_type, T_STATISTICS) THEN "statistics"
    ELSE IF Contains(record_type, T_WEBMAIL) THEN "webmail"
    ELSE "none"

\* Lines 186-192: email_data after the loop over the fields, in dict order.
RECURSIVE EmailData(_, _)
EmailData(fields, email_data) ==
    IF fields = <<>> THEN email_data
    ELSE LET field_type == Lower(Head(fields)[1])
             clean_val  == clean_field_value(Head(fields)[2])
         IN  EmailData(Tail(fields),
                 IF Contains(field_type, S_email) /\ clean_val # <<>>
                 THEN DictSet(email_data, "email", clean_val)
                 ELSE IF Contains(field_type, S_password) /\ clean_val # <<>>
                 THEN DictSet(email_data, "password", clean_val)
                 ELSE email_data)

\* The if/elif chains of lines 200-205, 209-214 and 218-219: which word in
\* the field's type sets which value, first match first.
BranchKeys(branch) ==
    CASE branch = "website" ->
            << <<S_login, "website_login">>, <<S_password, "website_password">>,
               <<S_url, "website_url">> >>
      [] branch = "statistics" ->
            << <<S_login, "statistics_login">>, <<S_password, "statistics_password">>,
               <<S_url, "statistics_url">> >>
      [] branch = "webmail" -> << <<S_url, "webmail_url">> >>

\* The value a field of this type sets, "" when it sets none.
KeyOf(field_type, keys) ==
    LET hits == {k \in DOMAIN keys : Contains(Lower(field_type), keys[k][1])}
    IN  IF hits = {} THEN ""
        ELSE keys[CHOOSE k \in hits : \A h \in hits : k <= h][2]

\* A value is set only when the field is not empty (the guard of the e-mail
\* branch, lines 189 and 191, put on the other branches).
RECURSIVE AssignFieldsIfNotEmpty(_, _, _)
AssignFieldsIfNotEmpty(data, fields, keys) ==
    IF fields = <<>> THEN data
    ELSE LET key       == KeyOf(Head(fields)[1], keys)
             clean_val == clean_field_value(Head(fields)[2])
         IN  AssignFieldsIfNotEmpty(
                 IF key = "" \/ clean_val = <<>> THEN data
                 ELSE [data EXCEPT ![key] = clean_val],
                 Tail(fields), keys)
\* Lines 198-205, 207-214, 216-219: the loop over the fields, in dict order;
\* every matching field sets its value, empty or not.
RECURSIVE AssignFields(_, _, _)
AssignFields(data, fields, keys) ==
    IF fields = <<>> THEN data
    ELSE LET key       == KeyOf(Head(fields)[1], keys)
             clean_val == clean_field_value(Head(fields)[2])
         IN  AssignFields(IF key = "" THEN data ELSE [data EXCEPT ![key] = clean_val],
                          Tail(fields), keys)

\* Lines 181-219: the body of the loop over the records.
HandleRecord(data, record) ==
    LET branch == RecordBranch(record.type)
    IN  IF branch = "emails"
        THEN LET email_data == EmailData(record.fields, <<>>)
             IN  IF DictGet(email_data, "email", <<>>) # <<>>
                 THEN [data EXCEPT !.emails = Append(@, email_data)]
                 ELSE data
        ELSE IF branch = "none" THEN data
        ELSE AssignFields(data, record.fields, BranchKeys(branch))

\* Lines 166-223: extract_vault_data of a whole list.
RECURSIVE ExtractInto(_, _)
ExtractInto(data, records) ==
    IF records = <<>> THEN data
    ELSE ExtractInto(HandleRecord(data, Head(records)), Tail(records))
extract_vault_data(records) == ExtractInto(EMPTY_VAULT_DATA, records)

\* ord of the characters of the model's addresses.
Ord(ch) == CASE ch = "'" -> 39 [] ch = "B" -> 66 [] ch = "[" -> 91
             [] ch = "]" -> 93 [] ch = "a" -> 97 [] ch = "b" -> 98
\* a < b on strings: by the first character that differs, a proper prefix first.
RECURSIVE StrLess(_, _)
StrLess(a, b) ==
    IF b = <<>> THEN FALSE
    ELSE IF a = <<>> THEN TRUE
    ELSE IF Head(a) # Head(b) THEN Ord(Head(a)) < Ord(Head(b))
    ELSE StrLess(Tail(a), Tail(b))

\* Line 236: sorted(emails, key=lambda x: x.get('email', '')).  The sort is
\* stable: entries with equal keys keep the order they came in.
EmailKey(email_data) == DictGet(email_data, "email", <<>>)
RECURSIVE sorted(_)
sorted(emails) ==
    IF emails = <<>> THEN <<>>
    ELSE LET before == sorted(SubSeq(emails, 1, Len(emails) - 1))
             x      == emails[Len(emails)]
             p      == Cardinality({k \in DOMAIN before :
                                      ~StrLess(EmailKey(x), EmailKey(before[k]))})
         IN  SubSeq(before, 1, p) \o <<x>> \o SubSeq(before, p + 1, Len(before))

\* str.split('(')[0]: the text before the first '('.
RECURSIVE BeforeParen(_)
BeforeParen(s) ==
    IF s = <<>> \/ Head(s) = "(" THEN <<>> ELSE <<Head(s)>> \o BeforeParen(Tail(s))
\* str.replace(sub, ''): every occurrence goes, found from the left.
RECURSIVE RemoveAll(_, _)
RemoveAll(s, sub) ==
    IF Len(s) < Len(sub) THEN s
    ELSE IF SubSeq(s, 1, Len(sub)) = sub
    THEN RemoveAll(SubSeq(s, Len(sub) + 1, Len(s)), sub)
    ELSE <<Head(s)>> \o RemoveAll(Tail(s), sub)
S_local == <<".", "l", "o", "c", "a", "l">>
\* Line 227.
customer_domain(customer_name) == RemoveAll(Strip(BeforeParen(customer_name)), S_local)

\* Lines 225-265.
build_template_context(customer_name, data) ==
    LET emails == IF data.emails # <<>> THEN sorted(data.emails) ELSE <<>>
        domain == customer_domain(customer_name)
    IN  [customer_name  |-> domain,
         current_date   |-> <<"2", "0", "2", "5">>,
         support_email  |-> <<"s", "u", "p", "p", "o", "r", "t", "@", "k", "u", "n", "z", "e", "-", "m", "e", "d", "i", "e", "n", ".", "d", "e">>,
         primary_email  |->
             IF Len(emails) >= 1 THEN DictGet(emails[1], "email", <<>>) ELSE <<>>,
         primary_email_password |->
             IF Len(emails) >= 1 THEN DictGet(emails[1], "password", <<>>) ELSE <<>>,
         secondary_email |->
             IF Len(emails) >= 2 THEN DictGet(emails[2], "email", <<>>) ELSE <<>>,
         secondary_email_password |->
             IF Len(emails) >= 2 THEN DictGet(emails[2], "password", <<>>) ELSE <<>>,
         webmail_url         |-> data.webmail_url,
         website_login       |-> data.website_login,
         website_password    |-> data.website_password,
         website_url         |-> data.website_url,
         statistics_login    |-> data.statistics_login,
         statistics_password |-> data.statistics_password,
         statistics_url      |-> data.statistics_url,
         smtp_server |-> IF data.smtp_server # <<>> THEN data.smtp_server
                         ELSE <<"s", "m", "t", "p", ".">> \o domain \o S_local,
         imap_server |-> <<"i", "m", "a", "p", ".">> \o domain \o S_local,
         pop_server  |-> <<"p", "o", "p", ".">> \o domain \o S_local,
         imap_port   |-> <<"9", "9", "3">>,
         pop_port    |-> <<"9", "9", "5">>,
         smtp_port   |-> <<"4", "6", "5">>]

\* The records of the model.  Values are written as the vault gives them,
\* "['a']"; V_EMPTY is "['']", a field that is there and empty.
V_a     == Quoted(<<"a">>)
V_b     == Quoted(<<"b">>)
V_B     == Quoted(<<"B">>)
V_EMPTY == Quoted(<<>>)
VdRecord(record_type, fields) == [type |-> record_type, fields |-> fields]
MailRecords ==
    {VdRecord(T_MAIL, f) : f \in
        { << <<S_email, V_a>>, <<S_password, V_a>> >>,
          << <<S_email, V_a>>, <<S_password, V_b>> >>,
          << <<S_email, V_b>>, <<S_password, V_a>> >>,
          << <<S_email, V_B>> >>,
          << <<<<"E", "m", "a", "i", "l">>, V_EMPTY>>, <<S_password, V_a>> >>,
          << <<S_password, V_a>> >> }}
SiteRecords ==
    {VdRecord(T_WEBSITE, f) : f \in
        { << <<S_login, V_a>>, <<S_url, V_a>> >>,
          << <<S_url, V_EMPTY>> >>,
          << <<S_login, V_b>> >>,
          << <<S_url, V_a>>, <<<<"U", "R", "L">>, V_b>> >> }}
    \cup {VdRecord(T_STATISTICS, f) : f \in
        { << <<S_url, V_a>>, <<S_password, V_a>> >>,
          << <<S_url, V_EMPTY>> >> }}
    \cup {VdRecord(T_WEBMAIL, f) : f \in
        { << <<S_url, V_a>> >>,
          << <<S_url, V_EMPTY>>, <<S_login, V_a>> >> }}
\* A record of another type, and one whose type holds two of the names.
OtherRecords ==
    { VdRecord(S_login, << <<S_email, V_a>>, <<S_url, V_b>> >>),
      VdRecord(T_WEBSITE \o <<SPACE>> \o T_MAIL, << <<S_email, V_b>>, <<S_url, V_b>> >>) }
VdRecords == MailRecords \cup SiteRecords \cup OtherRecords
VdNames == {<<"a">>, <<"a", ".", "l", "o", "c", "a", "l", " ", "(", "x", ")">>}

\* Lines 180-221: one turn of the loop over the records.
EVD_Record ==
    /\ vd_pc = "loop"
    /\ vd_i <= Len(vd_records)
    /\ vault_data' = HandleRecord(vault_data, vd_records[vd_i])
    /\ vd_branch' = Append(vd_branch, RecordBranch(vd_records[vd_i].type))
    /\ vd_i' = vd_i + 1
    /\ UNCHANGED <<vd_pc, vd_name, vd_records, vd_context, generator, system, upload>>

\* Lines 223 and 316: extract_vault_data returns and build_template_context
\* is called with the customer's name.
BTC_Call ==
    /\ vd_pc = "loop"
    /\ vd_i > Len(vd_records)
    /\ \E customer_name \in VdNames :
          /\ vd_name' = customer_name
          /\ vd_context' = Ok(build_template_context(customer_name, vault_data))
    /\ vd_pc' = "done"
    /\ UNCHANGED <<vd_records, vd_i, vault_data, vd_branch, generator, system, upload>>

InitVaultData ==
    /\ GeneratorOff
    /\ SystemOff
    /\ UploadOff
    /\ vd_pc = "loop"
    /\ vd_name = <<>>
    /\ vd_records \in SeqsUpTo(VdRecords, MaxVdRecords)
    /\ vd_i = 1
    /\ vault_data = EMPTY_VAULT_DATA
    /\ vd_branch = <<>>
    /\ vd_context = NotRun

NextVaultData == EVD_Record \/ BTC_Call

SpecVaultData == InitVaultData /\ [][NextVaultData]_vars

(***************************************************************************)
(* production_files/upload_templates_to_vault.py: main,                    *)
(* update_vault_templates and upload_enhanced_template_to_vault.           *)
(***************************************************************************)
MaxConfirmLen == 2
ConfirmChars  == {"y", "Y", "n", SPACE}
\* Lines 137-140 and 89-100: the two enhanced templates, in list order.
ENHANCED_TEMPLATES == <<"extern", "intern">>

\* Any answer but n taken for a yes.
ConfirmedUnlessNo(typed) == Lower(Strip(typed)) # <<"n">>
\* Lines 161-163.
Confirmed(typed) == Lower(Strip(typed)) = <<"y">>

UplPrint(kind, a, b) == upl_log' = Append(upl_log, Printed(kind, a, b))

\* Lines 137-157: both files must be there.
UplCheck ==
    /\ upl_pc = "check"
    /\ IF \A k \in DOMAIN ENHANCED_TEMPLATES : ENHANCED_TEMPLATES[k] \in files
       THEN upl_pc' = "confirm" /\ UplPrint("found", 0, 0)
       ELSE upl_pc' = "done" /\ UplPrint("missing", 0, 0)
    /\ UNCHANGED <<files, confirm, upl_i, upl_success_count, upl_records, generator, system, extraction>>

\* Lines 160-166.
UplConfirm ==
    /\ upl_pc = "confirm"
    /\ \E typed \in SeqsUpTo(ConfirmChars, MaxConfirmLen) :
          /\ confirm' = typed
          /\ IF Confirmed(typed)
             THEN upl_pc' = "authenticate" /\ UNCHANGED upl_log
             ELSE upl_pc' = "done" /\ UplPrint("cancelled", 0, 0)
    /\ UNCHANGED <<files, upl_i, upl_success_count, upl_records, generator, system, extraction>>

\* Line 86, authenticate (lines 11-22): no handler, so a login that raises
\* ends the script.
UplAuthenticate ==
    /\ upl_pc = "authenticate"
    /\ UplPrint("authenticating", 0, 0)
    /\ \/ upl_pc' = "upload" /\ upl_i' = 1
       \/ upl_pc' = "crashed" /\ UNCHANGED upl_i
    /\ UNCHANGED <<files, confirm, upl_success_count, upl_records, generator, system, extraction>>

\* upload_enhanced_template_to_vault, lines 24-77: what one call can come to.
\* The file may be gone by now (line 32); reading it may raise (line 37);
\* RecordAddCommand.execute returns the new record's UID, returns nothing, or
\* raises (lines 54-73).  Only "created" leaves a record and gives True.
UploadOutcomes(there) ==
    IF there THEN {"read error", "created", "no uid", "raised"} ELSE {"not found"}
upload_enhanced_template_to_vault(outcome) == outcome = "created"

\* Lines 104-115, one turn of the loop.
UplUpload ==
    /\ upl_pc = "upload"
    /\ upl_i <= Len(ENHANCED_TEMPLATES)
    /\ \E outcome \in UploadOutcomes(ENHANCED_TEMPLATES[upl_i] \in files) :
          LET success == upload_enhanced_template_to_vault(outcome)
          IN  /\ upl_records' = IF outcome = "created"
                                THEN upl_records \cup {ENHANCED_TEMPLATES[upl_i]}
                                ELSE upl_records
              /\ upl_success_count' = upl_success_count + (IF success THEN 1 ELSE 0)
              /\ UplPrint("upload", upl_i, IF success THEN 1 ELSE 0)
    /\ upl_i' = upl_i + 1
    /\ UNCHANGED <<upl_pc, files, confirm, generator, system, extraction>>

\* Lines 117-118.
UplSummary ==
    /\ upl_pc = "upload"
    /\ upl_i > Len(ENHANCED_TEMPLATES)
    /\ upl_pc' = "done"
    /\ UplPrint("summary", upl_success_count, Len(ENHANCED_TEMPLATES))
    /\ UNCHANGED <<files, confirm, upl_i, upl_success_count, upl_records, generator, system, extraction>>

\* The directory is not the script's alone: a file can go while it runs.
FileRemoved ==
    /\ upl_pc \in {"confirm", "authenticate", "upload"}
    /\ \E f \in files : files' = files \ {f}
    /\ UNCHANGED <<upl_pc, confirm, upl_i, upl_success_count, upl_records, upl_log,
                   generator, system, extraction>>

InitUpload ==
    /\ GeneratorOff
    /\ SystemOff
    /\ ExtractionOff
    /\ upl_pc = "check"
    /\ files \in SUBSET {ENHANCED_TEMPLATES[k] : k \in DOMAIN ENHANCED_TEMPLATES}
    /\ confirm = NoChoice
    /\ upl_i = 0
    /\ upl_success_count = 0
    /\ upl_records = {}
    /\ upl_log = <<>>

NextUpload ==
    \/ UplCheck \/ UplConfirm \/ UplAuthenticate \/ UplUpload \/ UplSummary \/ FileRemoved

SpecUpload == InitUpload /\ [][NextUpload]_vars

(***************************************************************************)
(* Either program, started once: keeper_pdf_generator.py or                *)
(* keeper_pdf_system.py.                                                   *)
(***************************************************************************)
InitPrograms == Init \/ InitSystem
NextPrograms == Next \/ NextSystem
SpecPrograms == InitPrograms /\ [][NextPrograms]_vars

(***************************************************************************)
(* The claims.                                                             *)
(***************************************************************************)
Exited          == pc = "raised"
DeleteAttempted(uid) == \E d \in deleteCalls : d.uid = uid
SharingFailed   == [customer |-> cur, level |-> "error"] \in logged
ErrorLogged(c)  == [customer |-> c, level |-> "error"] \in logged
Remaining(c)    == {o \in vault : o.uid \in created[c]}

\* C1: when a folder or record creation of process_customer fails, a deletion
\* has been attempted for every identifier created for that customer by the
\* time the failure leaves process_customer.
C1_CreationFailureRollsBack ==
    (Exited /\ exc \in {"create_folder", "add_record_v3"})
        => \A uid \in created[cur] : DeleteAttempted(uid)

\* C2: when main ends, it ends at 'Process completed' with every customer of
\* the list taken once, each either returned from or logged as a failure; a
\* failure of one customer never ends the run.
C2_BatchSurvivesCustomerFailure ==
    (mainPc \in {"completed", "crashed"})
        => /\ mainPc = "completed"
           /\ cur = Len(customers)
           /\ \A c \in DOMAIN customers : c \in returned \/ ErrorLogged(c)
           /\ (Len(customers) = 3 /\ Cardinality(returned) = 2)
                 => Cardinality({c \in DOMAIN customers : ErrorLogged(c)}) = 1

\* C3: whenever process_customer is not running (it returned, or an exception
\* left it), no temporary .docx or .pdf is left on disk.
C3_TempFilesRemovedOnEveryExit ==
    (pc \in {"none", "raised"}) => tmpFiles = {}

\* C4: when sharing failed and every delete call of the rollback went through,
\* the exception leaving process_customer is the sharing failure and a deletion
\* was attempted for every object created for the customer: the root folder,
\* the subfolders, the template's records and the PDF record.
C4_SharingFailureRollsBackEverything ==
    (Exited /\ SharingFailed /\ \A d \in deleteCalls : d.ok)
        => /\ exc = "sharing"
           /\ \A uid \in created[cur] : DeleteAttempted(uid)

\* C5: when the rollback ran, a deletion was attempted for every identifier of
\* the rollback's list, and the exception leaving process_customer is the
\* sharing failure that started the rollback, whatever the delete calls did.
C5_DeleteFailureNotEscalated ==
    (Exited /\ SharingFailed)
        => /\ exc = "sharing"
           /\ \A k \in DOMAIN created_uids : DeleteAttempted(created_uids[k])

\* C6: when rendering or conversion failed (loading the Word template,
\* rendering, saving, the Word automation calls, reading the PDF), the customer
\* has no PDF record, no attachment, and none of the folders and records
\* provisioned for it remain in the vault.
RenderingFailures ==
    {"NameError", "download_word_template", "render", "save", "convert", "read_pdf"}
C6_ConversionFailureLeavesNothing ==
    (Exited /\ exc \in RenderingFailures)
        => /\ pdf_uid = NoUid
           /\ \A o \in Remaining(cur) : ~o.attachment
           /\ Remaining(cur) = {}

\* C7: provisioning creates one root folder under the target folder, one
\* subfolder under the root per entry of 'subfolders', one record per entry of
\* 'records', each record in the subfolder its 'folder' names if there is one
\* and in the root folder otherwise, also when the record names no folder.
RootFolders == {o \in Remaining(cur) : o.kind = "folder" /\ o.parent = TARGET}
SubFolders  == {o \in Remaining(cur) : o.kind = "folder" /\ o.parent = root_folder_uid}
Records     == {o \in Remaining(cur) : o.kind = "record"}
NamedFolders(r) ==
    IF "folder" \in DOMAIN r THEN {f \in SubFolders : f.name = r.folder} ELSE {}
ExpectedParents(r) ==
    IF NamedFolders(r) # {} THEN {f.uid : f \in NamedFolders(r)} ELSE {root_folder_uid}
Structure ==
    /\ RootFolders # {}
    /\ \A o \in RootFolders : o.uid = root_folder_uid /\ o.name = template.root_folder
    /\ Cardinality(RootFolders) = 1
    /\ Cardinality(SubFolders) = Len(template.subfolders)
    /\ \A k \in DOMAIN template.subfolders :
          \E o \in SubFolders : o.name = template.subfolders[k]
    /\ Cardinality(Records) = Len(template.records)
    /\ \A k \in DOMAIN template.records :
          \E o \in Records : /\ o.name = template.records[k].title
                             /\ o.parent \in ExpectedParents(template.records[k])
C7_ProvisionedStructure ==
    /\ exc # "KeyError"
    /\ (pc = "build_context") => Structure

\* C8: the context built for a customer has customer_name equal to the
\* customer's name and, for every field the template declares for a record,
\* an entry '<title>_<field>' holding the template's value.
Absent == <<"(absent)">>
C8_ContextHoldsTemplateFields ==
    (pc = "download_word")
        => /\ DictGet(context, CUSTOMER_NAME_KEY, Absent) = customers[cur].name
           /\ \A k \in DOMAIN template.records :
                 \A j \in DOMAIN template.records[k].fields :
                    DictGet(context,
                            ContextKey(template.records[k].title,
                                       template.records[k].fields[j][1]),
                            Absent)
                       = template.records[k].fields[j][2]

\* C9 as claimed: in the aggregated context no two different (record, field)
\* pairs with different values share a key, and the context has one entry for
\* customer_name plus one per field of every record, whatever the titles and
\* field names are.
RECURSIVE TotalFields(_)
TotalFields(recs) ==
    IF recs = <<>> THEN 0 ELSE Len(Head(recs).data) + TotalFields(Tail(recs))
FieldPositions ==
    {p \in (DOMAIN ctxIn.records) \X (1..MaxFields) :
        p[2] \in DOMAIN ctxIn.records[p[1]].data}
TitleAt(p) == ctxIn.records[p[1]].title
FieldAt(p) == ctxIn.records[p[1]].data[p[2]][1]
ValueAt(p) == ctxIn.records[p[1]].data[p[2]][2]
KeyAt(p)   == TitleAt(p) \o <<"_">> \o FieldAt(p)
Chars(str) == {str[k] : k \in DOMAIN str}
S_customer == <<"c", "u", "s", "t", "o", "m", "e", "r">>
S_name     == <<"n", "a", "m", "e">>
C9_Precondition ==
    /\ \A a, b \in DOMAIN ctxIn.records :
          a # b => ctxIn.records[a].title # ctxIn.records[b].title
    /\ \A a \in DOMAIN ctxIn.records : "_" \notin Chars(ctxIn.records[a].title)
    /\ \A p \in FieldPositions : ~(TitleAt(p) = S_customer /\ FieldAt(p) = S_name)
RECURSIVE LiteralReplace(_, _)
LiteralReplace(text, name) ==
    IF text = <<>> THEN <<>>
    ELSE (IF Head(text) = TOKEN_NAME THEN name ELSE <<Head(text)>>)
         \o LiteralReplace(Tail(text), name)
C10_SubstitutionLiteralAndTotal ==
    (subOut # NotRun)
        => subOut = Ok(SubstTemplateOf(LiteralReplace(subIn.text, subIn.name)))

\* The statements of process_customer in the order of the text, and the four
\* steps they make up: provisioning (lines 144-157), rendering (159-168),
\* converting (170-180), publishing (181-202).
PIPELINE ==
    <<"substitute", "create_root", "create_subfolder", "create_record",
      "build_context", "download_word", "render", "save_docx",
      "make_pdf_tmp", "convert", "read_pdf", "remove_tmp",
      "create_pdf_record", "upload", "set_permission", "create_share">>
InPipeline(label) == \E k \in DOMAIN PIPELINE : PIPELINE[k] = label
Rank(label)       == CHOOSE k \in DOMAIN PIPELINE : PIPELINE[k] = label
StageOf(label)    == (Rank(label) + 3) \div 4
Failed(label)     == label \in {"raised", "rollback"}

Rejected == Len(answers) < Len(PROMPT_KEYS) /\ value # <<>> /\ ~validate(value)
Aborted  == mainPc \in {"exited", "crashed"}

\* C13: a template or folder value that fails its validator is never used:
\* every value a prompt returned passes the validator, and in batch mode
\* (--bulk) a rejected value has ended the run before any customer started,
\* instead of the prompt being shown again.
C13_InvalidValueAbortsBatch ==
    /\ \A k \in DOMAIN answers : validate(answers[k])
    /\ (args.bulk /\ Rejected) => (Aborted /\ cur = 0)

\* What customer c's own data and the JSON template determine: the
\* substituted template, the records it asks for as the vault lists them, the
\* contexts those records give in any listing order, and the names of the
\* objects behind created_uids (root folder, subfolders, PDF record).
OwnTemplate(c) == substitute_placeholders(json_template, customers[c])
OwnRecords(t) ==
    [k \in DOMAIN t.records |->
        [title |-> t.records[k].title, data |-> << <<S_title, t.records[k].title>> >>]]
OwnContexts(c, t) ==
    {BuildContext(customers[c], get_folder_records([k \in DOMAIN p |-> OwnRecords(t)[p[k]]])) :
        p \in Listings(DOMAIN t.records)}
RECURSIVE OwnSubfolders(_, _)
OwnSubfolders(subs, acc) ==
    IF subs = <<>> THEN [k \in DOMAIN acc |-> acc[k][1]]
    ELSE OwnSubfolders(Tail(subs), DictSet(acc, Head(subs), NoUid))
OwnCreatedNames(c, t) ==
    <<t.root_folder>> \o OwnSubfolders(t.subfolders, <<>>)
        \o <<customers[c].name \o <<"_", "p", "d", "f">>>>
NameOf(uid) == (CHOOSE o \in vault : o.uid = uid).name

\* C14: what process_customer computes for a customer is a function of that
\* customer's data and the JSON template alone, wherever the customer stands
\* in the batch and whatever was processed before.  A customer starts with
\* fresh locals; the template assigned is the substitution of this customer's
\* name into the JSON template, which is never changed; the context assigned
\* is built from this customer's own records only; and the list of created
\* identifiers names objects created for this customer and for no other.
C14_OwnDataOnly ==
    [][ /\ json_template' = json_template
        /\ (cur' # cur /\ mainPc' = "call") =>
              (template' = NoTemplate /\ context' = <<>> /\ created_uids' = <<>>)
        /\ (cur' = cur /\ template' # template) =>
              /\ OwnTemplate(cur).ok
              /\ template' = OwnTemplate(cur).val
        /\ (cur' = cur /\ context' # context) =>
              context' \in OwnContexts(cur, OwnTemplate(cur).val)
        /\ (cur' = cur /\ created_uids' # created_uids) =>
              /\ [k \in DOMAIN created_uids' |-> NameOf(created_uids'[k])]
                    = OwnCreatedNames(cur, OwnTemplate(cur).val)
              /\ \A k \in DOMAIN created_uids' :
                    /\ created_uids'[k] \in created[cur]
                    /\ \A c \in DOMAIN customers :
                          c # cur => created_uids'[k] \notin created[c]
      ]_vars
C14_Witness ==
    /\ cur = 2
    /\ 1 \in returned
    /\ customers[1].name # customers[2].name
    /\ pc = "create_share"
    /\ Len(context) > 1

\* The list of customers is built: main is past line 249.
Collected == mainPc \in {"loop", "call", "completed"} \/ cur > 0
NonEmptyRows(rows) == SelectSeq(rows, LAMBDA row : row # <<>>)
Cell(row, k) == IF Len(row) >= k THEN row[k] ELSE <<>>
Colons(str) == Cardinality({k \in DOMAIN str : str[k] = COLON})
StartsWith(str, prefix) ==
    /\ Len(prefix) <= Len(str)
    /\ \A k \in DOMAIN prefix : str[k] = prefix[k]
\* customer c is what the argument 'name:email:custom' says: the three pieces
\* hold no colon, and the argument is the pieces joined by colons, followed
\* at most by a further colon and text that is not read.
Spells(arg, c) ==
    /\ Colons(c.name) = 0 /\ Colons(c.email) = 0 /\ Colons(c.custom) = 0
    /\ CASE Colons(arg) = 0 -> arg = c.name /\ c.email = <<>> /\ c.custom = <<>>
         [] Colons(arg) = 1 -> arg = c.name \o <<COLON>> \o c.email /\ c.custom = <<>>
         [] Colons(arg) = 2 -> arg = c.name \o <<COLON>> \o c.email \o <<COLON>> \o c.custom
         [] OTHER -> StartsWith(arg, c.name \o <<COLON>> \o c.email \o <<COLON>>
                                        \o c.custom \o <<COLON>>)
CustomersFollowFlags ==
    Collected =>
        /\ ~args.bulk => Len(customers) = 1
        /\ (args.bulk /\ args.csv.given) =>
              LET rows == NonEmptyRows(args.csv.val)
              IN  /\ Len(customers) = Len(rows)
                  /\ \A k \in DOMAIN rows :
                        customers[k] = [name   |-> rows[k][1],
                                        email  |-> Cell(rows[k], 2),
                                        custom |-> Cell(rows[k], 3)]
        /\ (args.bulk /\ ~args.csv.given /\ args.customer.given) =>
              /\ Len(customers) = Len(args.customer.val)
              /\ \A k \in DOMAIN customers : Spells(args.customer.val[k], customers[k])
        /\ (args.bulk /\ ~args.csv.given /\ ~args.customer.given) =>
              /\ customers = <<>>
              /\ mainPc \in {"loop", "completed"}
              /\ vault = {create_folder(TARGET, <<>>, NoUid)}

\* C17: the list of customers follows the command line: without --bulk one
\* customer, prompted for; with --bulk and --csv one customer per non-empty
\* row, in row order, a missing second or third cell read as ''; with --bulk
\* and only --customer one customer per argument, in argument order; with
\* both, the CSV rows only; with --bulk and neither, no customer, nothing
\* created, and the run goes from the empty loop to its completion.
C17_CustomersFollowFlags ==
    [][ /\ CustomersFollowFlags'
        /\ (mainPc = "customers" /\ ~args.bulk) =>
              (mainPc' = "loop" /\ customers'[1].name \in CustomerNames)
        /\ (mainPc = "loop" /\ customers = <<>>) => mainPc' = "completed"
      ]_vars
C17_Witness ==
    /\ args.bulk /\ args.csv.given /\ args.customer.given
    /\ Len(customers) = 1
    /\ customers[1] = [name |-> <<"B">>, email |-> <<"e">>, custom |-> <<>>]
    /\ mainPc = "completed"

\* What an identifier of created_uids names: the PDF record, or a folder.
KindOf(uid) == IF uid = pdf_uid THEN "record" ELSE "folder"

\* C19: in the rollback every delete call is the one for the kind of object
\* its identifier names: the folder delete for the root folder and the
\* subfolders, the record delete for the PDF record, whatever text the
\* identifiers the vault returned consist of.
C19_RollbackDeletesByKind ==
    \A d \in deleteCalls : d.op = KindOf(d.uid)

\* The menu text reads as 'A': spaces around a single a or A.
NonSpaces(str) == SelectSeq(str, LAMBDA ch : ch # SPACE)
ReadsAsAll(str) == NonSpaces(str) \in {<<"a">>, <<"A">>}
TrueCalls == {k \in DOMAIN calls : calls[k].result = "true"}
LastPrinted == sys_printed[Len(sys_printed)]

\* C15: after the choice 'A', process_customer is called once for every
\* listed customer, in list order, whatever the earlier calls returned; a call
\* that found no template file or no records returned False; and the summary
\* printed at the end gives the number of calls that returned True out of
\* the number of customers.
C15_BatchCallsEveryCustomer ==
    (choice # NoChoice /\ ReadsAsAll(choice)) =>
        /\ Len(calls) <= Len(sys_customers)
        /\ \A k \in DOMAIN calls :
              /\ calls[k].customer = k
              /\ (calls[k].exists = "no") => calls[k].result = "false"
              /\ (calls[k].exists = "yes" /\ calls[k].records = 0
                    /\ calls[k].result # "running") => calls[k].result = "false"
              /\ (k < Len(calls)) => calls[k].result # "running"
        /\ sys_success_count = Cardinality(TrueCalls)
        /\ sys_pc = "done" =>
              /\ Len(calls) = Len(sys_customers)
              /\ LastPrinted = Printed("summary", Cardinality(TrueCalls), Len(sys_customers))
C15_Witness ==
    /\ sys_pc = "done"
    /\ Len(calls) = 4
    /\ calls[1].exists = "no"
    /\ calls[2].exists = "yes" /\ calls[2].records = 0
    /\ calls[3].pdf = "None"
    /\ calls[4].result = "true"
    /\ LastPrinted = Printed("summary", 1, 4)

\* The menu text reads as the decimal number n: spaces around a run of the
\* digits 0-9 whose value is n.
ReadsAsNumber(str, n) ==
    \E first, last \in DOMAIN str :
        /\ first <= last
        /\ \A k \in DOMAIN str : (first <= k /\ k <= last) <=> str[k] # SPACE
        /\ \A k \in first..last : str[k] \in DecimalDigits
        /\ LET Value[k \in (first - 1)..last] ==
                   IF k < first THEN 0 ELSE 10 * Value[k - 1] + DigitValue(str[k])
           IN  Value[last] = n
Called == [k \in DOMAIN calls |-> calls[k].customer]

\* C16: the menu text selects what is processed: 'A' in either case with
\* spaces around it, every listed customer; a decimal number k from 1 to the
\* number of customers, the k-th customer and no other; any other text (0, a
\* number above the count, the empty text, a sign, a digit that is not
\* decimal), no customer.
C16_ChoiceSelectsCustomers ==
    (choice # NoChoice) =>
        LET count == Len(sys_customers)
        IN  /\ ReadsAsAll(choice) =>
                  /\ \A k \in DOMAIN Called : Called[k] = k
                  /\ sys_pc = "done" => Len(Called) = count
            /\ \A n \in 1..count :
                  ReadsAsNumber(choice, n) =>
                      /\ Called \in {<<>>, <<n>>}
                      /\ sys_pc = "done" => Called = <<n>>
            /\ (~ReadsAsAll(choice) /\ \A n \in 1..count : ~ReadsAsNumber(choice, n)) =>
                  /\ Called = <<>>
                  /\ sys_pc = "done"
C16_Witness ==
    /\ choice = <<SPACE, "2">>
    /\ Len(sys_customers) = 3
    /\ sys_pc = "done"
    /\ Called = <<2>>

\* C20: generate_pdf is called only in a call of process_customer that found
\* the template file and extracted at least one record; a call that has
\* returned gave True exactly when generate_pdf gave a path and False in every
\* other case; and a call in which rendering or converting raised returned
\* False like any other, with the run going on to the next customer.
C20_GenerateOnlyWithTemplateAndRecords ==
    \A k \in DOMAIN calls :
        /\ calls[k].pdf \in {"not called", "path", "None"}
        /\ calls[k].pdf # "not called" =>
              (calls[k].exists = "yes" /\ calls[k].records >= 1)
        /\ calls[k].result # "running" =>
              (calls[k].result = "true" <=> calls[k].pdf = "path")
        /\ (calls[k].pdf = "None" /\ sys_pc = "batch" /\ k < Len(sys_customers)) =>
              (Len(calls) > k \/ (pos = k + 1 /\ call_pc = "none"))
C20_Witness ==
    /\ Len(calls) = 2
    /\ calls[1].pdf = "None" /\ calls[1].result = "false"
    /\ calls[2].pdf = "path" /\ calls[2].result = "true"

\* The login failed: authenticate logged it.
LoginFailed    == [customer |-> 0, level |-> "error"] \in logged
SysLoginFailed == \E k \in DOMAIN sys_printed : sys_printed[k].kind = "authentication failed"

\* C12: a failed login ends the run.  In keeper_pdf_generator.py the process
\* has exited with no prompt shown or answered, no customer taken, and the
\* vault neither read for a template nor changed; in keeper_pdf_system.py run
\* has returned with no customer listed and process_customer never called.
C12_FailedLoginEndsRun ==
    /\ LoginFailed =>
          /\ mainPc = "exited"
          /\ answers = <<>> /\ value = <<>>
          /\ customers = <<>> /\ cur = 0 /\ pc = "none"
          /\ vault = {create_folder(TARGET, <<>>, NoUid)}
          /\ deleteCalls = {}
    /\ SysLoginFailed =>
          /\ sys_pc = "done"
          /\ Len(sys_printed) = 1
          /\ sys_customers = <<>>
          /\ choice = NoChoice
          /\ calls = <<>>
C12_Witness ==
    /\ SysLoginFailed
    /\ sys_pc = "done"
    /\ folder_cache # {}

\* What the upload script did, from its log.
UplDid(kind)    == \E k \in DOMAIN upl_log : upl_log[k].kind = kind
UplAttempts     == SelectSeq(upl_log, LAMBDA e : e.kind = "upload")
ReadsAsYes(str) == NonSpaces(str) \in {<<"y">>, <<"Y">>}

\* C18: the upload script starts the login, and creates a record, only after
\* it found both enhanced template files and the user answered y or Y (spaces
\* around it aside); once confirmed and logged in, it attempts both templates
\* in order whatever the first attempt came to; and the number of successes it
\* counts and reports is the number of records created.
C18_UploadOnlyWhenConfirmed ==
    /\ UplDid("authenticating") =>
          (UplDid("found") /\ confirm # NoChoice /\ ReadsAsYes(confirm))
    /\ upl_records # {} => UplDid("authenticating")
    /\ upl_success_count = Cardinality(upl_records)
    /\ \A k \in DOMAIN UplAttempts : UplAttempts[k].a = k
    /\ UplDid("summary") =>
          /\ Len(UplAttempts) = Len(ENHANCED_TEMPLATES)
          /\ upl_log[Len(upl_log)]
                = Printed("summary", Cardinality(upl_records), Len(ENHANCED_TEMPLATES))
C18_Witness ==
    /\ upl_pc = "done"
    /\ confirm = <<"Y", SPACE>>
    /\ upl_records = {"intern"}
    /\ upl_log[Len(upl_log)] = Printed("summary", 1, 2)

\* The four e-mail values of a context.
EmailValues(ctx) ==
    <<ctx.primary_email, ctx.primary_email_password,
      ctx.secondary_email, ctx.secondary_email_password>>
\* The lists that hold the same records in another order.
Reorderings(records) ==
    {[k \in DOMAIN records |-> records[p[k]]] :
        p \in {q \in [DOMAIN records -> DOMAIN records] :
                  \A a, b \in DOMAIN records : a # b => q[a] # q[b]}}
Address(account)  == DictGet(account, "email", <<>>)
Password(account) == DictGet(account, "password", <<>>)
NotAfter(a, b)    == ~StrLess(Address(b), Address(a))
\* The records in any other order give the same four values.
EmailsWhateverTheOrder ==
    \A other \in Reorderings(vd_records) :
        EmailValues(build_template_context(vd_name, extract_vault_data(other)))
            = EmailValues(vd_context.val)
\* The primary pair is an account no other account's address comes before,
\* the secondary pair another account that only the primary one may come
\* before; pairs without an account are empty.
EmailsSmallestFirst ==
    LET accounts == vault_data.emails
        ctx      == vd_context.val
    IN  /\ accounts = <<>> => EmailValues(ctx) = <<<<>>, <<>>, <<>>, <<>>>>
        /\ Len(accounts) = 1 =>
              EmailValues(ctx) = <<Address(accounts[1]), Password(accounts[1]), <<>>, <<>>>>
        /\ Len(accounts) >= 2 =>
              \E k, m \in DOMAIN accounts :
                  /\ k # m
                  /\ EmailValues(ctx) = <<Address(accounts[k]), Password(accounts[k]),
                                          Address(accounts[m]), Password(accounts[m])>>
                  /\ \A j \in DOMAIN accounts : NotAfter(accounts[k], accounts[j])
                  /\ \A j \in DOMAIN accounts \ {k} : NotAfter(accounts[m], accounts[j])

\* C21: build_template_context assigns the e-mail accounts independently of
\* the order of the records: the primary address and password are those of
\* the account with the smallest address, the secondary those of the second
\* smallest; without accounts all four values are empty, with one account the
\* secondary pair is empty, further accounts are ignored, and a password
\* always stands next to the address of its own account.
C21_EmailsAssignedWhateverTheOrder ==
    vd_pc = "done" => (EmailsWhateverTheOrder /\ EmailsSmallestFirst)

\* The record the loop of extract_vault_data has in hand.
InHand  == vd_records[vd_i]
\* The field gives a value of this kind: its type, in lower case, holds the
\* word, and none of the words asked before it.
Gives(field, word, before) ==
    /\ Contains(Lower(field[1]), word)
    /\ \A w \in before : ~Contains(Lower(field[1]), w)
\* The record has an e-mail field that is not empty.
HasAddress(record) ==
    \E k \in DOMAIN record.fields :
        /\ Gives(record.fields[k], S_email, {})
        /\ clean_field_value(record.fields[k][2]) # <<>>
\* The values by the record type that sets them.
GroupOf(data, name) ==
    CASE name = T_MAIL       -> <<data.emails>>
      [] name = T_WEBSITE    -> <<data.website_login, data.website_password,
                                  data.website_url>>
      [] name = T_STATISTICS -> <<data.statistics_login, data.statistics_password,
                                  data.statistics_url>>
      [] name = T_WEBMAIL    -> <<data.webmail_url>>
TypeNames == {T_MAIL, T_WEBSITE, T_STATISTICS, T_WEBMAIL}
Changed == {name \in TypeNames : GroupOf(vault_data', name) # GroupOf(vault_data, name)}
\* One record changes the values of at most one record type, a type its own
\* type names; a record of no such type changes nothing, smtp_server is never
\* set, and an E-Mail-Postfach record adds one entry when it has an address
\* and none when it has not.
OneBranch ==
    /\ Cardinality(Changed) <= 1
    /\ \A name \in Changed : Contains(InHand.type, name)
    /\ (\A name \in TypeNames : ~Contains(InHand.type, name)) => vault_data' = vault_data
    /\ vault_data'.smtp_server = vault_data.smtp_server
    /\ Contains(InHand.type, T_MAIL) =>
          Len(vault_data'.emails) = Len(vault_data.emails) + (IF HasAddress(InHand) THEN 1 ELSE 0)
\* The value kept under a key once the first n records are handled: that of
\* the last record, among those of the branch, that has a field giving that
\* value, as its last such field gives it, empty or not; empty when no record
\* has one.
KeptIsLast(data, branches, n, key, branch, word, before) ==
    LET giving == {k \in 1..n :
                      /\ branches[k] = branch
                      /\ \E f \in DOMAIN vd_records[k].fields :
                            Gives(vd_records[k].fields[f], word, before)}
    IN  IF giving = {} THEN data[key] = <<>>
        ELSE LET last   == CHOOSE k \in giving : \A j \in giving : j <= k
                 fields == vd_records[last].fields
                 f      == CHOOSE a \in DOMAIN fields :
                              /\ Gives(fields[a], word, before)
                              /\ \A c \in DOMAIN fields :
                                    Gives(fields[c], word, before) => c <= a
             IN  data[key] = clean_field_value(fields[f][2])
KeptValues(data, branches, n) ==
    /\ KeptIsLast(data, branches, n, "website_login", "website", S_login, {})
    /\ KeptIsLast(data, branches, n, "website_password", "website", S_password, {S_login})
    /\ KeptIsLast(data, branches, n, "website_url", "website", S_url, {S_login, S_password})
    /\ KeptIsLast(data, branches, n, "statistics_login", "statistics", S_login, {})
    /\ KeptIsLast(data, branches, n, "statistics_password", "statistics", S_password,
                  {S_login})
    /\ KeptIsLast(data, branches, n, "statistics_url", "statistics", S_url,
                  {S_login, S_password})
    /\ KeptIsLast(data, branches, n, "webmail_url", "webmail", S_url, {})
\* Every entry of 'emails' has an address that is not empty.
EmailsHaveAddress(emails) ==
    \A k \in DOMAIN emails :
        /\ "email" \in DictKeys(emails[k])
        /\ DictGet(emails[k], "email", <<>>) # <<>>

\* C22: for any list of records, extract_vault_data keeps every entry of
\* 'emails' with an address that is not empty (an E-Mail-Postfach record with
\* no such field adds no entry), handles each record in one record-type
\* branch only and leaves everything alone for a record of another type, and
\* keeps for each website, statistics and webmail value the one the last
\* record giving that value gave, also when that one is empty and a record
\* before it gave one that was not.
C22_ExtractVaultDataInvariants ==
    [][vd_i' = vd_i + 1 =>
          /\ OneBranch
          /\ EmailsHaveAddress(vault_data'.emails)
          /\ KeptValues(vault_data', vd_branch', vd_i)]_vars
\* An empty website URL has replaced one that was not empty, and an
\* E-Mail-Postfach record without an address has added no entry.
C22_Witness ==
    /\ vd_pc = "done"
    /\ vault_data.website_url = <<>>
    /\ \E k, m \in DOMAIN vd_records :
          /\ k < m
          /\ vd_branch[k] = "website" /\ vd_branch[m] = "website"
          /\ \E f \in DOMAIN vd_records[k].fields :
                /\ Gives(vd_records[k].fields[f], S_url, {S_login, S_password})
                /\ clean_field_value(vd_records[k].fields[f][2]) # <<>>
    /\ \E k \in DOMAIN vd_records :
          /\ vd_branch[k] = "emails"
          /\ ~HasAddress(vd_records[k])
    /\ vault_data.emails = <<>>

=============================================================================
